---- MODULE Spec2Model ----
(***************************************************************************)
(* Model of the wendy-vscode workspace readiness coordinator               *)
(* (WendyWorkspaceContext) and of the launch-configuration synthesizer     *)
(* (makeDebugConfigurations).                                              *)
(*                                                                         *)
(* Every await of the TypeScript source is a step boundary; the code       *)
(* between two awaits is one atomic action (single-threaded event loop).   *)
(***************************************************************************)
EXTENDS Integers, Sequences, FiniteSets, TLC

\* ------------------------------------------------------------------------
\* Bounds of the model
\* ------------------------------------------------------------------------
\* Swift.FolderContext objects the toolchain creates in a session
MaxHandles == 2
\* length of the launch list found in the store (synthesizer specification)
MaxLen == 2
\* calls of makeDebugConfigurations made in the synthesizer specification
MaxCalls == 2
\* calls of the DeviceManager operations made in the device specification
MaxOps == 2

\* ------------------------------------------------------------------------
\* Values
\* ------------------------------------------------------------------------
WENDY_LAUNCH_CONFIG_TYPE == "wendy"

\* "a" and "b" can be workspace folders; "c" is a folder only the
\* toolchain knows (a package outside the workspace folder list).
Paths == {"a", "b", "c"}

\* vscode.workspace.workspaceFolders; <<>> stands for undefined
WorkspaceChoices == {<<>>, <<"a">>, <<"a", "b">>}

\* `swift` of a WendyFolderContext that has no toolchain context
Undefined == [path |-> "", id |-> 0]

FolderOperation ==
  {"add", "remove", "focus", "unfocus", "packageUpdated", "resolvedUpdated",
   "workspaceStateUpdated", "packageViewUpdated", "pluginsUpdated"}

\* the operations the toolchain is made to emit: the three that are handled
\* and one of those that handleFolderEvent skips
EventOperations == {"add", "remove", "packageUpdated", "focus"}

\* swiftPackage.executableProducts of a package
ProductChoices == {<<>>, <<"app">>, <<"app", "tool">>}

\* launch configurations that are not of this extension
OtherConfig(n) ==
  [type |-> "lldb", name |-> <<"Launch", n, "">>, request |-> "launch",
   target |-> n, cwd |-> "", preLaunchTask |-> <<"", "">>]

\* a configuration of this extension that is already in launch.json
OldWendyConfig ==
  [type |-> WENDY_LAUNCH_CONFIG_TYPE, name |-> <<"Debug", "old", "on WendyOS">>,
   request |-> "attach", target |-> "old", cwd |-> "",
   preLaunchTask |-> <<"wendy: Run", "old">>]

StoredConfigs == {OtherConfig("x"), OtherConfig("y"), OldWendyConfig}

RECURSIVE SeqsUpTo(_, _)
SeqsUpTo(S, n) ==
  IF n = 0 THEN {<<>>}
  ELSE LET shorter == SeqsUpTo(S, n - 1)
       IN shorter \cup {Append(q, e) : q \in shorter, e \in S}

\* ------------------------------------------------------------------------
\* makeDebugConfigurations: pure parts
\* ------------------------------------------------------------------------
HasWendyConfigurationsEvery(configurations) ==
  /\ Len(configurations) > 0
  /\ \A i \in 1..Len(configurations) :
        configurations[i].type = WENDY_LAUNCH_CONFIG_TYPE

HasWendyConfigurationsFirst(configurations) ==
  /\ Len(configurations) > 0
  /\ configurations[1].type = WENDY_LAUNCH_CONFIG_TYPE

HasWendyConfigurations(configurations) ==
  \E i \in 1..Len(configurations) :
     configurations[i].type = WENDY_LAUNCH_CONFIG_TYPE

CreateExecutableConfigurationsFirstProduct(context, products) ==
  [i \in 1..(IF Len(products) > 0 THEN 1 ELSE 0) |->
     [type |-> WENDY_LAUNCH_CONFIG_TYPE,
      name |-> <<"Debug", products[i], "on WendyOS">>,
      request |-> "attach", target |-> products[i],
      cwd |-> context.folder,
      preLaunchTask |-> <<"wendy: Run", products[i]>>]]

\* context: a WendyFolderContext [swift, folder]; products: the value of
\* context.swift.swiftPackage.executableProducts (unused without swift)
CreateExecutableConfigurations(context, products) ==
  IF context.swift = Undefined
  THEN << [type |-> WENDY_LAUNCH_CONFIG_TYPE,
           name |-> <<"Debug", "Python App", "on WendyOS">>,
           request |-> "attach", target |-> context.folder,
           cwd |-> context.folder,
           preLaunchTask |-> <<"wendy: Run", "Python App">>] >>
  ELSE [i \in 1..Len(products) |->
          [type |-> WENDY_LAUNCH_CONFIG_TYPE,
           name |-> <<"Debug", products[i], "on WendyOS">>,
           request |-> "attach", target |-> products[i],
           cwd |-> context.folder,
           preLaunchTask |-> <<"wendy: Run", products[i]>>]]

NewConfigurationsDropExisting(wendyConfigurations, configurations) ==
  wendyConfigurations

NewConfigurations(wendyConfigurations, configurations) ==
  wendyConfigurations \o configurations

\* ------------------------------------------------------------------------
\* Strings, as sequences of characters
\* ------------------------------------------------------------------------
\* String.prototype.includes for a one-character needle
Includes(s, ch) == \E i \in DOMAIN s : s[i] = ch

\* String.prototype.split(separator): the pieces between the separators
RECURSIVE Split(_, _)
Split(s, sep) ==
  IF ~Includes(s, sep) THEN <<s>>
  ELSE LET i == CHOOSE k \in DOMAIN s :
                   s[k] = sep /\ \A j \in 1..(k - 1) : s[j] # sep
       IN <<SubSeq(s, 1, i - 1)>> \o Split(SubSeq(s, i + 1, Len(s)), sep)

Digits == <<"0", "1", "2", "3", "4", "5", "6", "7", "8", "9">>

\* Number.prototype.toString of a non-negative integer
RECURSIVE NumberToString(_)
NumberToString(n) ==
  IF n < 10 THEN <<Digits[n + 1]>>
  ELSE NumberToString(n \div 10) \o <<Digits[(n % 10) + 1]>>

\* String.prototype.toString returns the string itself
StringToString(s) == s

\* ------------------------------------------------------------------------
\* DeviceManager: values
\* ------------------------------------------------------------------------
\* a configuration key without value (config.get returns undefined)
Unset == <<>>

\* ids made by uuidv7() and ids the discovery probe reports
Uuid(n) == <<"uuid", n>>
LanId == <<"lan", 1>>

\* addresses the user types: a host, and the same host with a port
HostOnly == <<"h">>
HostDebugPort == <<"h", ":", "4", "2", "4", "2">>
HostOtherPort == <<"h", ":", "9">>
Addresses == {HostOnly, HostOtherPort}

\* the result of Array.prototype.find that found nothing
NoDevice == [id |-> Unset, address |-> <<>>, connectionType |-> "none"]

\* new Device(d.id, d.address, d.address, undefined, "Custom") for every
\* stored entry (name and agentVersion are display data and left out)
ManuallyAddedDevices(entries) ==
  [i \in 1..Len(entries) |->
     [id |-> entries[i].id, address |-> entries[i].address,
      connectionType |-> "Custom"]]

\* what `wendy discover --json` reports in lanDevices
LanDevice == [id |-> LanId, address |-> HostDebugPort, connectionType |-> "LAN"]
FoundChoices == {<<>>, <<LanDevice>>}

\* the devices.find(d => d.id === id) of the source
Find(devs, id) ==
  IF \E i \in DOMAIN devs : devs[i].id = id
  THEN devs[CHOOSE i \in DOMAIN devs :
              devs[i].id = id /\ \A j \in 1..(i - 1) : devs[j].id # id]
  ELSE NoDevice

\* callers that can have a DeviceManager operation in progress: the
\* command handlers (add, delete, select) and the devices view, which
\* lists on every refresh
DevCallers == {"command", "view"}

IdleOp ==
  [pc |-> "idle", kind |-> "none", arg |-> Unset, read |-> <<>>,
   next |-> <<>>, made |-> Unset, target |-> Unset, outcome |-> "none",
   result |-> <<>>, error |-> "none", writes |-> 0, wasCurrent |-> FALSE,
   endManual |-> <<>>, endCurrent |-> Unset]

\* ------------------------------------------------------------------------
\* Session resolver: values
\* ------------------------------------------------------------------------
\* Default debug port used by Wendy agent
DEFAULT_DEBUG_PORT == 4242

DEFAULT_DEBUGPY_PORT == 5678

\* what wendy.json of the folder holds
Manifests == {"missing", "unparsable", "null", "python", "other"}

\* the setting wendyos.swiftSdkPath: unset, blank, a path that does not
\* exist, a path that exists
SdkPaths == {"unset", "blank", "absent", "present"}

\* texts of a debugConfiguration, as sequences of pieces: a property that
\* is absent, the empty string, a text
Absent == <<>>

EmptyText == <<"">>

\* the values JavaScript takes for false in `!x` and `x && ...`
Falsy(text) == text \in {Absent, EmptyText}

Targets == {Absent, EmptyText, <<"app">>}

GivenTasks == {Absent, EmptyText, <<"build">>}

\* the debugConfiguration objects handed to the resolver
DebugConfigurations ==
  {[target |-> tg, preLaunchTask |-> pt] : tg \in Targets, pt \in GivenTasks}

IdleReq ==
  [pc |-> "idle", folder |-> FALSE, manifest |-> "other", sdk |-> "unset",
   branch |-> "none", noDevice |-> FALSE, result |-> "none",
   type |-> "none", remote |-> <<>>, address |-> <<>>, ensureCalls |-> 0,
   prompts |-> 0,
   \* the preconditions evaluated so far, in the order of evaluation
   checked |-> <<>>,
   \* fields of the debugConfiguration that is returned
   request |-> "none", connect |-> [host |-> <<>>, port |-> 0],
   pathMappings |-> <<>>,
   \* target and preLaunchTask of the debugConfiguration, and the
   \* preLaunchTask the request came with
   target |-> <<>>, preLaunchTask |-> <<>>, givenTask |-> <<>>,
   \* the answer to the message of an unmet precondition
   selection |-> "none"]

\* ------------------------------------------------------------------------
\* State
\* ------------------------------------------------------------------------
VARIABLES
  \* --- WendyWorkspaceContext fields -------------------------------------
  constructed,              \* the constructor body has run
  hasSwiftExtension,        \* Boolean(swift)
  folders,                  \* WendyFolderContext[]: records [swift, folder]
  hasWendyFolder,
  initialFoldersReady,      \* _initialFoldersReady
  timeoutHandle,            \* _initialFolderSetupTimeout !== null
  initialFolderPaths,       \* _initialFolderPaths
  processedFolderPaths,     \* _processedFolderPaths
  generatedConfigurations,  \* _generatedConfigurations
  listening,                \* _onFoldersReady has the constructor's listener
  disposed,
  \* --- host, toolchain and store ----------------------------------------
  timerPending,             \* the setTimeout callback is still scheduled
  workspaceFolders,         \* vscode.workspace.workspaceFolders
  wendyProjects,            \* paths for which isWendyProject answers true
  executableProducts,       \* path -> swiftPackage.executableProducts
  launch,                   \* path -> stored "launch.configurations"
  swiftGen,                 \* path -> FolderContext objects created so far
  swiftLive,                \* path -> the toolchain holds a FolderContext
  \* --- asynchronous activities ------------------------------------------
  genpc,                    \* position of generateLaunchConfigurations
  genidx,                   \* index of its loop over workspaceFolders
  existingMatchFound,       \* the local of that name in the loop body
  mdc,                      \* caller -> running makeDebugConfigurations
  \* --- observations -----------------------------------------------------
  fireCount,                \* calls of _onFoldersReady.fire()
  genCalls,                 \* invocations of generateLaunchConfigurations
  genRuns,                  \* executions of its body (past the guard)
  prompts,                  \* calls of promptRefreshDebugConfigurations
  readyBy,                  \* what set _initialFoldersReady
  timerExpired,             \* the setTimeout callback has run
  nonAddSeen,               \* a folder event other than `add` was handled
  storeWrites,              \* wsLaunchSection.update calls completed
  synthCtx,                 \* synthesizer specification: the folder context
  synthLog,                 \* synthesizer specification: completed calls
  \* --- DeviceManager ----------------------------------------------------
  manual,                   \* setting wendyos.devices: [id, address] entries
  currentDeviceId,          \* setting wendyos.currentDevice
  devices,                  \* this.devices
  deviceIdsCheckedForUpdates,
  ops,                      \* caller -> operation in progress
  checks,                   \* checkForUpdates calls that passed the guard
  rechecked,                \* ids for which the guard returned at once
  nextUuid,                 \* number of the next uuidv7() value
  opCalls,                  \* operations called so far
  listed,                   \* a getDevices call has returned
  lastList,                 \* what the most recent getDevices returned
  \* --- session resolver -------------------------------------------------
  req,                      \* the resolution request in progress
  \* --- handlers registered in activate ---------------------------------
  deleteCommand,            \* the command wendyDevices.deleteDevice
  handlers                  \* invocations of the onDidChangeFolders handler

vars ==
  <<constructed, hasSwiftExtension, folders, hasWendyFolder,
    initialFoldersReady, timeoutHandle, initialFolderPaths,
    processedFolderPaths, generatedConfigurations, listening, disposed,
    timerPending, workspaceFolders, wendyProjects, executableProducts,
    launch, swiftGen, swiftLive, genpc, genidx, existingMatchFound, mdc,
    fireCount, genCalls,
    genRuns, prompts, readyBy, timerExpired, nonAddSeen, storeWrites,
    synthCtx, synthLog, manual, currentDeviceId, devices,
    deviceIdsCheckedForUpdates, ops, checks, rechecked, nextUuid, opCalls,
    listed, lastList, req, deleteCommand, handlers>>

\* the variables of the DeviceManager and of the session resolver
devVars ==
  <<manual, currentDeviceId, devices, deviceIdsCheckedForUpdates, ops,
    checks, rechecked, nextUuid, opCalls, listed, lastList>>

resVars == <<req>>

\* the variables of the handlers that activate registers
cmdVars == <<deleteCommand, handlers>>

\* the variables of the coordinator and of the synthesizer
coreVars ==
  <<constructed, hasSwiftExtension, folders, hasWendyFolder,
    initialFoldersReady, timeoutHandle, initialFolderPaths,
    processedFolderPaths, generatedConfigurations, listening, disposed,
    timerPending, workspaceFolders, wendyProjects, executableProducts,
    launch, swiftGen, swiftLive, genpc, genidx, existingMatchFound, mdc,
    fireCount, genCalls,
    genRuns, prompts, readyBy, timerExpired, nonAddSeen, storeWrites,
    synthCtx, synthLog>>

\* invocations of the onDidChangeFolders handler of activate that can be
\* in progress at once
Handlers == {"h1", "h2"}

\* callers of makeDebugConfigurations: the generateLaunchConfigurations
\* pass, a direct caller used by the synthesizer specification, and the
\* invocations of the onDidChangeFolders handler of activate
Callers == {"pass", "direct"} \cup Handlers

\* an invocation of the onDidChangeFolders handler that has not started
IdleHandler ==
  [pc |-> "idle", folder |-> [path |-> "", id |-> 0], wrote |-> FALSE]

\* the command wendyDevices.deleteDevice at rest
IdleCommand ==
  [pc |-> "idle", item |-> <<>>, confirmed |-> "none", deleteCalls |-> 0]

IdleMdc ==
  [pc |-> "idle", context |-> [swift |-> Undefined, folder |-> ""],
   configurations |-> <<>>, newConfigurations |-> <<>>, result |-> FALSE,
   writes |-> 0]

Range(f) == {f[i] : i \in DOMAIN f}

\* the fields that synchronous code of WendyWorkspaceContext reads and writes
Cur ==
  [folders |-> folders, hasWendyFolder |-> hasWendyFolder,
   initialFoldersReady |-> initialFoldersReady,
   timeoutHandle |-> timeoutHandle, timerPending |-> timerPending,
   initialFolderPaths |-> initialFolderPaths,
   processedFolderPaths |-> processedFolderPaths,
   generatedConfigurations |-> generatedConfigurations,
   listening |-> listening, genpc |-> genpc, genidx |-> genidx,
   existingMatchFound |-> existingMatchFound,
   fireCount |-> fireCount,
   genCalls |-> genCalls, genRuns |-> genRuns, prompts |-> prompts]

\* store the fields back; `cause` names the trigger that ran the code
Commit(s, cause) ==
  /\ folders' = s.folders
  /\ hasWendyFolder' = s.hasWendyFolder
  /\ initialFoldersReady' = s.initialFoldersReady
  /\ timeoutHandle' = s.timeoutHandle
  /\ timerPending' = s.timerPending
  /\ initialFolderPaths' = s.initialFolderPaths
  /\ processedFolderPaths' = s.processedFolderPaths
  /\ generatedConfigurations' = s.generatedConfigurations
  /\ listening' = s.listening
  /\ genpc' = s.genpc
  /\ genidx' = s.genidx
  /\ existingMatchFound' = s.existingMatchFound
  /\ fireCount' = s.fireCount
  /\ genCalls' = s.genCalls
  /\ genRuns' = s.genRuns
  /\ prompts' = s.prompts
  /\ readyBy' = IF s.initialFoldersReady /\ ~initialFoldersReady
                THEN cause ELSE readyBy

\* ------------------------------------------------------------------------
\* WendyWorkspaceContext: synchronous methods, as state transformers
\* ------------------------------------------------------------------------
GenerateLaunchConfigurationsUnguarded(s) ==
  [s EXCEPT !.genCalls = @ + 1,
            !.generatedConfigurations = TRUE,
            !.genRuns = @ + 1,
            !.genpc = "hasAny"]

\* generateLaunchConfigurations up to its first await
GenerateLaunchConfigurations(s) ==
  LET called == [s EXCEPT !.genCalls = @ + 1]
  IN IF called.generatedConfigurations
     THEN called
     ELSE [called EXCEPT !.generatedConfigurations = TRUE,
                         !.genRuns = @ + 1,
                         !.genpc = "hasAny"]

FireFoldersReadyNoListener(s) ==
  [s EXCEPT !.fireCount = @ + 1]

\* _onFoldersReady.fire(): synchronous delivery to the registered listener
FireFoldersReady(s) ==
  LET fired == [s EXCEPT !.fireCount = @ + 1]
  IN IF fired.listening THEN GenerateLaunchConfigurations(fired) ELSE fired

ClearTimeout(s) ==
  IF s.timeoutHandle
  THEN [s EXCEPT !.timerPending = FALSE, !.timeoutHandle = FALSE]
  ELSE s

MarkFoldersReadyUnguarded(s) ==
  ClearTimeout(FireFoldersReady([s EXCEPT !.initialFoldersReady = TRUE]))

MarkFoldersReady(s) ==
  IF ~s.initialFoldersReady
  THEN ClearTimeout(FireFoldersReady([s EXCEPT !.initialFoldersReady = TRUE]))
  ELSE s

CheckAllFoldersProcessedAnyProcessed(s) ==
  IF Cardinality(s.initialFolderPaths) = 0
     \/ Cardinality(s.processedFolderPaths) > 0
  THEN MarkFoldersReady(s)
  ELSE s

CheckAllFoldersProcessed(s) ==
  IF Cardinality(s.initialFolderPaths) = 0
     \/ Cardinality(s.initialFolderPaths) = Cardinality(s.processedFolderPaths)
  THEN MarkFoldersReady(s)
  ELSE s

\* push a new WendyFolderContext, mark its path processed, check readiness
\* (shared tail of getOrCreateFolderContext and of the pass's new-folder block)
PushFolderContext(s, context) ==
  LET pushed == [s EXCEPT !.folders = Append(@, context),
                          !.processedFolderPaths = @ \cup {context.folder}]
  IN IF context.folder \in pushed.initialFolderPaths
     THEN CheckAllFoldersProcessed(pushed)
     ELSE pushed

\* folder: a Swift.FolderContext [path, id]
GetOrCreateFolderContext(s, folder) ==
  IF \E i \in 1..Len(s.folders) : s.folders[i].swift = folder
  THEN [s EXCEPT !.hasWendyFolder = TRUE]
  ELSE PushFolderContext(s, [swift |-> folder, folder |-> folder.path])

RemoveAt(q, i) == SubSeq(q, 1, i - 1) \o SubSeq(q, i + 1, Len(q))

HandleFolderEvent(s, operation, folder) ==
  IF folder = Undefined THEN s
  ELSE IF operation \in {"add", "packageUpdated"}
       THEN GetOrCreateFolderContext(s, folder)
  ELSE IF operation = "remove"
       THEN LET matches == {i \in 1..Len(s.folders) :
                              \/ s.folders[i].swift = folder
                              \/ s.folders[i].folder = folder.path}
            IN IF matches # {} /\ ~s.hasWendyFolder
               THEN LET i == CHOOSE m \in matches : \A n \in matches : m <= n
                    IN [s EXCEPT !.folders = RemoveAt(@, i),
                                 !.prompts = @ + 1]
               ELSE s
  ELSE s

\* ------------------------------------------------------------------------
\* makeDebugConfigurations as an asynchronous activity of a caller
\* ------------------------------------------------------------------------
\* a call that does not test the stored list for the tag
MakeDebugConfigurationsNoSkip(context) ==
  [IdleMdc EXCEPT !.pc = "create", !.context = context,
                  !.configurations = launch[context.folder]]

\* the call up to its first await: read the stored list, test for the tag
MakeDebugConfigurations(context) ==
  LET configurations == launch[context.folder]
  IN IF HasWendyConfigurations(configurations)
     THEN [IdleMdc EXCEPT !.pc = "ret", !.context = context,
                          !.configurations = configurations,
                          !.result = FALSE]
     ELSE [IdleMdc EXCEPT !.pc = "create", !.context = context,
                          !.configurations = configurations]

\* createExecutableConfigurations has resolved
MdcCreated(c) ==
  /\ mdc[c].pc = "create"
  /\ LET m == mdc[c]
         wendyConfigurations ==
           CreateExecutableConfigurations(m.context,
                                          executableProducts[m.context.folder])
     IN mdc' = [mdc EXCEPT ![c] =
          IF Len(wendyConfigurations) = 0
          THEN [m EXCEPT !.pc = "ret", !.result = FALSE]
          ELSE [m EXCEPT !.pc = "update",
                         !.newConfigurations =
                            NewConfigurations(wendyConfigurations,
                                              m.configurations)]]
  /\ UNCHANGED <<constructed, hasSwiftExtension, folders, hasWendyFolder,
       initialFoldersReady, timeoutHandle, initialFolderPaths,
       processedFolderPaths, generatedConfigurations, listening, disposed,
       timerPending, workspaceFolders, wendyProjects, executableProducts,
       launch, swiftGen, swiftLive, genpc, genidx, existingMatchFound,
       fireCount, genCalls,
       genRuns, prompts, readyBy, timerExpired, nonAddSeen, storeWrites,
       synthCtx, synthLog>>
  /\ UNCHANGED <<devVars, resVars, cmdVars>>

\* wsLaunchSection.update has resolved: the merged list is in the store
MdcUpdated(c) ==
  /\ mdc[c].pc = "update"
  /\ launch' = [launch EXCEPT ![mdc[c].context.folder] =
                                 mdc[c].newConfigurations]
  /\ storeWrites' = storeWrites + 1
  /\ mdc' = [mdc EXCEPT ![c] = [@ EXCEPT !.pc = "ret", !.result = TRUE,
                                         !.writes = @ + 1]]
  /\ UNCHANGED <<constructed, hasSwiftExtension, folders, hasWendyFolder,
       initialFoldersReady, timeoutHandle, initialFolderPaths,
       processedFolderPaths, generatedConfigurations, listening, disposed,
       timerPending, workspaceFolders, wendyProjects, executableProducts,
       swiftGen, swiftLive, genpc, genidx, existingMatchFound,
       fireCount, genCalls,
       genRuns, prompts, readyBy, timerExpired, nonAddSeen,
       synthCtx, synthLog>>
  /\ UNCHANGED <<devVars, resVars, cmdVars>>

\* ------------------------------------------------------------------------
\* WendyWorkspaceContext: constructor, timer, dispose, folder events
\* ------------------------------------------------------------------------
envVars ==
  <<workspaceFolders, wendyProjects, executableProducts, launch,
    synthCtx, synthLog, storeWrites, devVars, resVars, cmdVars>>

\* new WendyWorkspaceContext(context, output, cli, swift)
Constructor(swift) ==
  /\ ~constructed
  /\ constructed' = TRUE
  /\ hasSwiftExtension' = swift
  /\ LET snapshot == [Cur EXCEPT !.initialFolderPaths = Range(workspaceFolders)]
         subscribed == IF swift THEN snapshot ELSE MarkFoldersReady(snapshot)
         timed == [subscribed EXCEPT !.timeoutHandle = TRUE,
                                     !.timerPending = TRUE]
     IN Commit([timed EXCEPT !.listening = TRUE], "construct")
  /\ UNCHANGED <<disposed, swiftGen, swiftLive, mdc, timerExpired,
                 nonAddSeen>>
  /\ UNCHANGED envVars

TimerExpiryNoMark ==
  /\ timerPending
  /\ timerExpired' = TRUE
  /\ Commit([Cur EXCEPT !.timerPending = FALSE], "timer")
  /\ UNCHANGED <<constructed, hasSwiftExtension, disposed, swiftGen,
                 swiftLive, mdc, nonAddSeen>>
  /\ UNCHANGED envVars

\* the callback given to setTimeout runs
TimerExpiry ==
  /\ timerPending
  /\ timerExpired' = TRUE
  /\ Commit(MarkFoldersReady([Cur EXCEPT !.timerPending = FALSE]), "timer")
  /\ UNCHANGED <<constructed, hasSwiftExtension, disposed, swiftGen,
                 swiftLive, mdc, nonAddSeen>>
  /\ UNCHANGED envVars

DisposeKeepTimer ==
  /\ constructed
  /\ ~disposed
  /\ disposed' = TRUE
  /\ Commit([Cur EXCEPT !.folders = <<>>, !.listening = FALSE], "dispose")
  /\ UNCHANGED <<constructed, hasSwiftExtension, swiftGen, swiftLive,
                 mdc, timerExpired, nonAddSeen>>
  /\ UNCHANGED envVars

\* the host disposes context.subscriptions (deactivation)
Dispose ==
  /\ constructed
  /\ ~disposed
  /\ disposed' = TRUE
  /\ Commit([Cur EXCEPT !.folders = <<>>,
                        !.listening = FALSE,
                        !.timerPending = IF timeoutHandle THEN FALSE ELSE @],
            "dispose")
  /\ UNCHANGED <<constructed, hasSwiftExtension, swiftGen, swiftLive,
                 mdc, timerExpired, nonAddSeen>>
  /\ UNCHANGED envVars

RECURSIVE SumOver(_, _)
SumOver(f, S) ==
  IF S = {} THEN 0
  ELSE LET x == CHOOSE y \in S : TRUE IN f[x] + SumOver(f, S \ {x})

HandlesCreated == SumOver(swiftGen, Paths)

\* the toolchain emits a folder event and handleFolderEvent runs; p = "" is
\* an event without folder
DeliverFolderEvent(operation, p) ==
  /\ constructed
  /\ hasSwiftExtension
  /\ IF p = ""
     THEN /\ UNCHANGED <<swiftGen, swiftLive>>
          /\ Commit(HandleFolderEvent(Cur, operation, Undefined), "event")
     ELSE /\ IF operation = "add"
             THEN ~swiftLive[p] /\ HandlesCreated < MaxHandles
             ELSE swiftLive[p]
          /\ swiftGen' = IF operation = "add"
                         THEN [swiftGen EXCEPT ![p] = @ + 1] ELSE swiftGen
          /\ swiftLive' = IF operation = "add"
                          THEN [swiftLive EXCEPT ![p] = TRUE]
                          ELSE IF operation = "remove"
                          THEN [swiftLive EXCEPT ![p] = FALSE]
                          ELSE swiftLive
          /\ Commit(HandleFolderEvent(Cur, operation,
                                      [path |-> p, id |-> swiftGen'[p]]),
                    "event")
  /\ nonAddSeen' = (nonAddSeen \/ operation # "add" \/ p = "")
  /\ UNCHANGED <<constructed, hasSwiftExtension, disposed, timerExpired>>
  /\ UNCHANGED <<workspaceFolders, wendyProjects, executableProducts,
                 launch, synthCtx, synthLog, storeWrites, devVars, resVars,
                 deleteCommand>>

\* an event while the subscriptions of the extension are in place; the
\* handler of activate is left out
FolderEvent(operation, p) ==
  /\ ~disposed
  /\ DeliverFolderEvent(operation, p)
  /\ UNCHANGED <<mdc, handlers>>

\* dispose() was called on the WendyWorkspaceContext itself: the
\* subscription to the toolchain is not among the things it disposes, and
\* events still reach handleFolderEvent
FolderEventLate(operation, p) ==
  /\ disposed
  /\ DeliverFolderEvent(operation, p)
  /\ UNCHANGED <<mdc, handlers>>

\* ------------------------------------------------------------------------
\* generateLaunchConfigurations: the asynchronous pass
\* ------------------------------------------------------------------------
passVars ==
  <<constructed, hasSwiftExtension, disposed, swiftGen, swiftLive,
    timerExpired, nonAddSeen>>

\* `continue nextFolder` / end of the loop body
NextFolder(s) ==
  IF s.genidx < Len(workspaceFolders)
  THEN [s EXCEPT !.genidx = @ + 1, !.genpc = "classify"]
  ELSE [s EXCEPT !.genpc = "done"]

\* the block that creates a WendyFolderContext without toolchain context,
\* up to the await of makeDebugConfigurations(newFolder)
NewFolderBlock(s, folderPath) ==
  [PushFolderContext(s, [swift |-> Undefined, folder |-> folderPath])
     EXCEPT !.genpc = "mdcNew"]

\* hasAnyWendyDebugConfiguration has resolved (its result is only logged)
GenHasAnyDone ==
  /\ genpc = "hasAny"
  /\ Commit(IF workspaceFolders = <<>>
            THEN [Cur EXCEPT !.genpc = "done"]
            ELSE [Cur EXCEPT !.genidx = 1, !.genpc = "classify"], "pass")
  /\ UNCHANGED <<mdc>>
  /\ UNCHANGED passVars
  /\ UNCHANGED envVars

\* isWendyProject has resolved for workspaceFolders[genidx]
GenClassified ==
  /\ genpc = "classify"
  /\ LET folderPath == workspaceFolders[genidx]
         matches == {i \in 1..Len(folders) : folders[i].folder = folderPath}
     IN IF folderPath \notin wendyProjects
        THEN /\ Commit(NextFolder(Cur), "pass")
             /\ UNCHANGED mdc
        ELSE IF matches # {}
        THEN LET i == CHOOSE m \in matches : \A n \in matches : m <= n
             IN /\ Commit([Cur EXCEPT !.genpc = "mdcExisting",
                                      !.existingMatchFound = TRUE], "pass")
                /\ mdc' = [mdc EXCEPT !["pass"] =
                                   MakeDebugConfigurations(folders[i])]
        ELSE /\ Commit(NewFolderBlock([Cur EXCEPT
                                         !.existingMatchFound = FALSE],
                                      folderPath), "pass")
             /\ mdc' = [mdc EXCEPT !["pass"] =
                  MakeDebugConfigurations([swift |-> Undefined,
                                           folder |-> folderPath])]
  /\ UNCHANGED passVars
  /\ UNCHANGED envVars

\* makeDebugConfigurations(wendyFolder) of the matching context has resolved
GenAfterExisting ==
  /\ genpc = "mdcExisting"
  /\ mdc["pass"].pc = "ret"
  /\ LET folderPath == workspaceFolders[genidx]
     IN IF mdc["pass"].result
        THEN /\ Commit([Cur EXCEPT !.prompts = @ + 1, !.genpc = "prompt"],
                       "pass")
             /\ mdc' = [mdc EXCEPT !["pass"] = IdleMdc]
        ELSE /\ Commit(NewFolderBlock(Cur, folderPath), "pass")
             /\ mdc' = [mdc EXCEPT !["pass"] =
                  MakeDebugConfigurations([swift |-> Undefined,
                                           folder |-> folderPath])]
  /\ UNCHANGED passVars
  /\ UNCHANGED envVars

\* makeDebugConfigurations(newFolder) has resolved
GenAfterNew ==
  /\ genpc = "mdcNew"
  /\ mdc["pass"].pc = "ret"
  /\ Commit(NextFolder(Cur), "pass")
  /\ mdc' = [mdc EXCEPT !["pass"] = IdleMdc]
  /\ UNCHANGED passVars
  /\ UNCHANGED envVars

\* the user answered or dismissed the refresh prompt of the pass
GenPromptAnswered ==
  /\ genpc = "prompt"
  /\ Commit([Cur EXCEPT !.genpc = "done"], "pass")
  /\ UNCHANGED mdc
  /\ UNCHANGED passVars
  /\ UNCHANGED envVars

\* ------------------------------------------------------------------------
\* The pass with failing synthesis and with direct calls
\* ------------------------------------------------------------------------
\* a promise awaited by makeDebugConfigurations rejects: the executable
\* products of the package (stage "create", toolchain context only) or
\* wsLaunchSection.update (stage "update"); nothing is written
MdcRejected(c) ==
  /\ \/ mdc[c].pc = "create" /\ mdc[c].context.swift # Undefined
     \/ mdc[c].pc = "update"
  /\ mdc' = [mdc EXCEPT ![c] = [@ EXCEPT !.pc = "thrown"]]
  /\ UNCHANGED <<constructed, hasSwiftExtension, folders, hasWendyFolder,
       initialFoldersReady, timeoutHandle, initialFolderPaths,
       processedFolderPaths, generatedConfigurations, listening, disposed,
       timerPending, workspaceFolders, wendyProjects, executableProducts,
       launch, swiftGen, swiftLive, genpc, genidx, existingMatchFound,
       fireCount, genCalls, genRuns, prompts, readyBy, timerExpired,
       nonAddSeen, storeWrites, synthCtx, synthLog>>
  /\ UNCHANGED <<devVars, resVars, cmdVars>>

\* the catch block of generateLaunchConfigurations: the try around the
\* whole loop ends, the error is logged and the method returns
GenCaught ==
  /\ genpc \in {"mdcExisting", "mdcNew"}
  /\ mdc["pass"].pc = "thrown"
  /\ Commit([Cur EXCEPT !.genpc = "caught"], "pass")
  /\ mdc' = [mdc EXCEPT !["pass"] = IdleMdc]
  /\ UNCHANGED passVars
  /\ UNCHANGED envVars

\* a caller other than the foldersReady listener invokes the public method
GenerateLaunchConfigurationsCall ==
  /\ constructed
  /\ genCalls < MaxCalls
  /\ Commit(GenerateLaunchConfigurations(Cur), "call")
  /\ UNCHANGED mdc
  /\ UNCHANGED passVars
  /\ UNCHANGED envVars

\* ------------------------------------------------------------------------
\* The DeviceManager after construction and the resolver at rest
\* ------------------------------------------------------------------------
\* new DeviceManager(): the fields as their initializers leave them
DeviceManagerFields ==
  /\ devices = <<>>
  /\ deviceIdsCheckedForUpdates = {}
  /\ ops = [c \in DevCallers |-> IdleOp]
  /\ checks = <<>>
  /\ rechecked = {}
  /\ opCalls = 0
  /\ listed = FALSE
  /\ lastList = <<>>

\* no device was ever stored in the settings
NoStoredDevices ==
  /\ manual = <<>>
  /\ currentDeviceId = Unset
  /\ nextUuid = 1

\* ------------------------------------------------------------------------
\* Specification of the coordinator
\* ------------------------------------------------------------------------
\* the folders the toolchain reports: the workspace folders and "c"
ToolchainPaths == Range(workspaceFolders) \cup {"c"}

\* the answers of isWendyProject for the workspace folders: none is a
\* project, all are, or all but the first
ProjectChoices(ws) ==
  {{}, Range(ws), Range(ws) \ {"a"}}

\* what launch.json and the package of folder "a" hold at activation:
\* <<stored list, executable products>>
FolderStates ==
  {<< <<>>, <<"app">> >>, << <<>>, <<>> >>,
   << <<OtherConfig("x")>>, <<"app">> >>, << <<OldWendyConfig>>, <<"app">> >>}

InitFields ==
  /\ constructed = FALSE
  /\ hasSwiftExtension = FALSE
  /\ folders = <<>>
  /\ hasWendyFolder = FALSE
  /\ initialFoldersReady = FALSE
  /\ timeoutHandle = FALSE
  /\ initialFolderPaths = {}
  /\ processedFolderPaths = {}
  /\ generatedConfigurations = FALSE
  /\ listening = FALSE
  /\ disposed = FALSE
  /\ timerPending = FALSE
  /\ swiftGen = [p \in Paths |-> 0]
  /\ swiftLive = [p \in Paths |-> FALSE]
  /\ genpc = "idle"
  /\ genidx = 0
  /\ existingMatchFound = FALSE
  /\ mdc = [c \in Callers |-> IdleMdc]
  /\ fireCount = 0
  /\ genCalls = 0
  /\ genRuns = 0
  /\ prompts = 0
  /\ readyBy = "none"
  /\ timerExpired = FALSE
  /\ nonAddSeen = FALSE
  /\ storeWrites = 0
  /\ synthLog = <<>>
  /\ deleteCommand = IdleCommand
  /\ handlers = [h \in Handlers |-> IdleHandler]

Init ==
  /\ InitFields
  /\ workspaceFolders \in WorkspaceChoices
  /\ wendyProjects \in ProjectChoices(workspaceFolders)
  /\ \E fs \in (IF "a" \in wendyProjects THEN FolderStates
                 ELSE {<< <<>>, <<"app">> >>}) :
       /\ launch = [p \in Paths |-> IF p = "a" THEN fs[1] ELSE <<>>]
       /\ executableProducts =
            [p \in Paths |-> IF p = "a" THEN fs[2] ELSE <<"app">>]
  /\ synthCtx = IdleMdc.context
  /\ DeviceManagerFields
  /\ NoStoredDevices
  /\ req = IdleReq

Next ==
  \/ \E swift \in BOOLEAN : Constructor(swift)
  \/ TimerExpiry
  \/ Dispose
  \/ \E operation \in EventOperations, p \in ToolchainPaths \cup {""} :
        FolderEvent(operation, p)
  \/ GenHasAnyDone
  \/ GenClassified
  \/ GenAfterExisting
  \/ GenAfterNew
  \/ GenPromptAnswered
  \/ MdcCreated("pass")
  \/ MdcUpdated("pass")

Spec == Init /\ [][Next]_vars

\* the event loop runs a timer callback whose timer is still scheduled
FairSpec == Spec /\ WF_vars(TimerExpiry)

\* two managed workspace folders, synthesis that may fail, direct calls
InitPass ==
  /\ InitFields
  /\ workspaceFolders = <<"a", "b">>
  /\ wendyProjects = {"a", "b"}
  /\ launch = [p \in Paths |-> <<>>]
  /\ executableProducts \in
       {[p \in Paths |-> IF p = "a" THEN pa ELSE <<"app">>] :
          pa \in {<<>>, <<"app">>}}
  /\ synthCtx = IdleMdc.context
  /\ DeviceManagerFields
  /\ NoStoredDevices
  /\ req = IdleReq

NextPass ==
  \/ \E swift \in BOOLEAN : Constructor(swift)
  \/ TimerExpiry
  \/ \E p \in Range(workspaceFolders) : FolderEvent("add", p)
  \/ GenerateLaunchConfigurationsCall
  \/ GenHasAnyDone
  \/ GenClassified
  \/ GenAfterExisting
  \/ GenAfterNew
  \/ GenPromptAnswered
  \/ GenCaught
  \/ MdcCreated("pass")
  \/ MdcUpdated("pass")
  \/ MdcRejected("pass")

SpecPass == InitPass /\ [][NextPass]_vars

\* one workspace folder, and folder events that still arrive after
\* dispose() was called
InitDisposed ==
  /\ InitFields
  /\ workspaceFolders = <<"a">>
  /\ wendyProjects \in {{}, {"a"}}
  /\ launch = [p \in Paths |-> <<>>]
  /\ executableProducts = [p \in Paths |-> <<"app">>]
  /\ synthCtx = IdleMdc.context
  /\ DeviceManagerFields
  /\ NoStoredDevices
  /\ req = IdleReq

NextDisposed ==
  \/ \E swift \in BOOLEAN : Constructor(swift)
  \/ TimerExpiry
  \/ Dispose
  \/ \E operation \in EventOperations, p \in ToolchainPaths :
        FolderEvent(operation, p)
  \/ \E operation \in EventOperations, p \in ToolchainPaths :
        FolderEventLate(operation, p)
  \/ GenHasAnyDone
  \/ GenClassified
  \/ GenAfterExisting
  \/ GenAfterNew
  \/ GenPromptAnswered
  \/ MdcCreated("pass")
  \/ MdcUpdated("pass")

SpecDisposed == InitDisposed /\ [][NextDisposed]_vars

\* ------------------------------------------------------------------------
\* The onDidChangeFolders handler that activate registers
\* ------------------------------------------------------------------------
handlerVars ==
  <<constructed, hasSwiftExtension, folders, hasWendyFolder,
    initialFoldersReady, timeoutHandle, initialFolderPaths,
    processedFolderPaths, generatedConfigurations, listening, disposed,
    timerPending, workspaceFolders, wendyProjects, executableProducts,
    launch, swiftGen, swiftLive, genpc, genidx, existingMatchFound,
    fireCount, genCalls, genRuns, readyBy, timerExpired, nonAddSeen,
    storeWrites, synthCtx, synthLog, devVars, resVars, deleteCommand>>

\* the toolchain emits an event to its subscribers in the order of their
\* subscription: the handler of activate runs up to its first await, the
\* call of isWendyProject for an `add` with a folder, then
\* handleFolderEvent runs
HandledFolderEvent(h, operation, p) ==
  /\ ~disposed
  /\ DeliverFolderEvent(operation, p)
  /\ IF operation = "add" /\ p # ""
     THEN /\ handlers[h].pc \in {"idle", "done"}
          /\ handlers' = [handlers EXCEPT ![h] =
               [IdleHandler EXCEPT !.pc = "classify",
                                   !.folder = [path |-> p,
                                               id |-> swiftGen'[p]]]]
     ELSE UNCHANGED handlers
  /\ UNCHANGED mdc

\* isWendyProject has resolved in the handler: for a project it looks for
\* the WendyFolderContext of the event's folder, reads the stored list and
\* calls makeDebugConfigurations when no "wendy" descriptor is stored
HandlerClassified(h) ==
  /\ handlers[h].pc = "classify"
  /\ LET folder == handlers[h].folder
         matches == {i \in 1..Len(folders) : folders[i].swift = folder}
     IN IF folder.path \notin wendyProjects \/ matches = {}
           \/ HasWendyConfigurations(launch[folder.path])
        THEN /\ handlers' = [handlers EXCEPT ![h] = [@ EXCEPT !.pc = "done"]]
             /\ UNCHANGED mdc
        ELSE LET i == CHOOSE m \in matches : \A n \in matches : m <= n
             IN /\ handlers' = [handlers EXCEPT ![h] = [@ EXCEPT !.pc = "mdc"]]
                /\ mdc' = [mdc EXCEPT ![h] =
                                   MakeDebugConfigurations(folders[i])]
  /\ UNCHANGED prompts
  /\ UNCHANGED handlerVars

\* makeDebugConfigurations has resolved in the handler: the refresh prompt
\* is shown whatever the result
HandlerSynthesized(h) ==
  /\ handlers[h].pc = "mdc"
  /\ mdc[h].pc = "ret"
  /\ handlers' = [handlers EXCEPT ![h] =
                     [@ EXCEPT !.pc = "prompt", !.wrote = mdc[h].result]]
  /\ mdc' = [mdc EXCEPT ![h] = IdleMdc]
  /\ prompts' = prompts + 1
  /\ UNCHANGED handlerVars

\* the refresh prompt of the handler was answered or dismissed
HandlerPromptAnswered(h) ==
  /\ handlers[h].pc = "prompt"
  /\ handlers' = [handlers EXCEPT ![h] = [@ EXCEPT !.pc = "done"]]
  /\ UNCHANGED <<mdc, prompts>>
  /\ UNCHANGED handlerVars

\* one managed workspace folder whose package has zero or one product
InitHandler ==
  /\ InitFields
  /\ workspaceFolders = <<"a">>
  /\ wendyProjects = {"a"}
  /\ launch = [p \in Paths |-> <<>>]
  /\ executableProducts \in
       {[p \in Paths |-> pa] : pa \in {<<>>, <<"app">>}}
  /\ synthCtx = IdleMdc.context
  /\ DeviceManagerFields
  /\ NoStoredDevices
  /\ req = IdleReq

NextHandler ==
  \/ Constructor(TRUE)
  \/ TimerExpiry
  \/ \E h \in Handlers, operation \in {"add", "remove"} :
        HandledFolderEvent(h, operation, "a")
  \/ \E h \in Handlers : HandlerClassified(h)
  \/ \E h \in Handlers : HandlerSynthesized(h)
  \/ \E h \in Handlers : HandlerPromptAnswered(h)
  \/ GenHasAnyDone
  \/ GenClassified
  \/ GenAfterExisting
  \/ GenAfterNew
  \/ GenPromptAnswered
  \/ \E c \in {"pass"} \cup Handlers : MdcCreated(c)
  \/ \E c \in {"pass"} \cup Handlers : MdcUpdated(c)

SpecHandler == InitHandler /\ [][NextHandler]_vars

\* ------------------------------------------------------------------------
\* Specification of the synthesizer: sequential calls on one folder
\* ------------------------------------------------------------------------
SynthCall ==
  /\ mdc["direct"].pc = "idle"
  /\ Len(synthLog) < MaxCalls
  /\ mdc' = [mdc EXCEPT !["direct"] = MakeDebugConfigurations(synthCtx)]
  /\ UNCHANGED <<constructed, hasSwiftExtension, folders, hasWendyFolder,
       initialFoldersReady, timeoutHandle, initialFolderPaths,
       processedFolderPaths, generatedConfigurations, listening, disposed,
       timerPending, workspaceFolders, wendyProjects, executableProducts,
       launch, swiftGen, swiftLive, genpc, genidx, existingMatchFound,
       fireCount, genCalls,
       genRuns, prompts, readyBy, timerExpired, nonAddSeen, storeWrites,
       synthCtx, synthLog>>
  /\ UNCHANGED <<devVars, resVars, cmdVars>>

SynthReturn ==
  /\ mdc["direct"].pc = "ret"
  /\ synthLog' = Append(synthLog,
       [before |-> mdc["direct"].configurations,
        after |-> launch[synthCtx.folder],
        result |-> mdc["direct"].result,
        writes |-> mdc["direct"].writes])
  /\ mdc' = [mdc EXCEPT !["direct"] = IdleMdc]
  /\ UNCHANGED <<constructed, hasSwiftExtension, folders, hasWendyFolder,
       initialFoldersReady, timeoutHandle, initialFolderPaths,
       processedFolderPaths, generatedConfigurations, listening, disposed,
       timerPending, workspaceFolders, wendyProjects, executableProducts,
       launch, swiftGen, swiftLive, genpc, genidx, existingMatchFound,
       fireCount, genCalls,
       genRuns, prompts, readyBy, timerExpired, nonAddSeen, storeWrites,
       synthCtx>>
  /\ UNCHANGED <<devVars, resVars, cmdVars>>

InitSynth ==
  /\ InitFields
  /\ workspaceFolders = <<"a">>
  /\ wendyProjects = {"a"}
  /\ executableProducts \in
       {[p \in Paths |-> IF p = "a" THEN pa ELSE <<>>] : pa \in ProductChoices}
  /\ launch \in
       {[p \in Paths |-> IF p = "a" THEN la ELSE <<>>] :
          la \in SeqsUpTo(StoredConfigs, MaxLen)}
  /\ synthCtx \in {[swift |-> Undefined, folder |-> "a"],
                   [swift |-> [path |-> "a", id |-> 1], folder |-> "a"]}
  /\ DeviceManagerFields
  /\ NoStoredDevices
  /\ req = IdleReq

NextSynth ==
  \/ SynthCall
  \/ MdcCreated("direct")
  \/ MdcUpdated("direct")
  \/ SynthReturn

SpecSynth == InitSynth /\ [][NextSynth]_vars

\* ------------------------------------------------------------------------
\* DeviceManager: synchronous parts, as state transformers
\* ------------------------------------------------------------------------
\* the fields that synchronous code of DeviceManager reads and writes;
\* `thrown` tells that the code left by an exception.  The private field
\* this.currentDevice is only ever written and is left out.
DevCur ==
  [devices |-> devices,
   deviceIdsCheckedForUpdates |-> deviceIdsCheckedForUpdates,
   checks |-> checks, rechecked |-> rechecked, thrown |-> FALSE]

DevCommit(d) ==
  /\ devices' = d.devices
  /\ deviceIdsCheckedForUpdates' = d.deviceIdsCheckedForUpdates
  /\ checks' = d.checks
  /\ rechecked' = d.rechecked

\* a checkForUpdates call waiting for WendyCLI.create(); `caught` tells
\* whether the call site handles a rejection of the promise: every call
\* site is the bare statement `this.checkForUpdates(device);`
NewCheck(device) ==
  [device |-> device, pc |-> "create", queried |-> FALSE,
   prompted |-> FALSE, caught |-> FALSE,
   \* the answer to the update message and the calls of updateAgent
   answer |-> "none", updateCalls |-> 0]

CheckForUpdatesUnguarded(d, device) ==
  [d EXCEPT !.deviceIdsCheckedForUpdates = @ \cup {device.id},
            !.checks = Append(@, NewCheck(device))]

\* checkForUpdates(device) up to its first await
CheckForUpdates(d, device) ==
  IF device.id \in d.deviceIdsCheckedForUpdates
  THEN [d EXCEPT !.rechecked = @ \cup {device.id}]
  ELSE [d EXCEPT !.deviceIdsCheckedForUpdates = @ \cup {device.id},
                 !.checks = Append(@, NewCheck(device))]

\* getCurrentDevice()
GetCurrentDevice(devs, currentId) ==
  IF currentId = Unset THEN NoDevice ELSE Find(devs, currentId)

\* the end of both branches of getDevices: store the list, look the current
\* device up in it and start its update check
StoreDevices(d, devs, currentId) ==
  LET stored == [d EXCEPT !.devices = devs]
      currentDevice == GetCurrentDevice(devs, currentId)
  IN IF currentDevice # NoDevice
     THEN CheckForUpdates(stored, currentDevice)
     ELSE stored

DiscoveryOutcomes == {"noCli", "execError", "malformed", "found"}

GetDevicesReturnNoCatch(outcome, found, manuallyAddedDevices) ==
  IF outcome = "found"
  THEN [error |-> "none", result |-> found \o manuallyAddedDevices]
  ELSE IF outcome = "noCli"
  THEN [error |-> "none", result |-> manuallyAddedDevices]
  ELSE [error |-> outcome, result |-> <<>>]

\* what getDevices returns: the try block covers WendyCLI.create, the
\* probe, JSON.parse and the loop over lanDevices
GetDevicesReturn(outcome, found, manuallyAddedDevices) ==
  IF outcome = "found"
  THEN [error |-> "none", result |-> found \o manuallyAddedDevices]
  ELSE [error |-> "none", result |-> manuallyAddedDevices]

\* setCurrentDevice(deviceId) up to its await of config.update
SetCurrentDevice(d, deviceId) ==
  IF deviceId # Unset
  THEN LET device == Find(d.devices, deviceId)
       IN IF device = NoDevice
          THEN [d EXCEPT !.thrown = TRUE]
          ELSE CheckForUpdates(d, device)
  ELSE d

\* the operation after that part: rejected, or waiting for config.update
AfterSetCurrentDevice(op, d, deviceId) ==
  IF d.thrown
  THEN [op EXCEPT !.pc = "thrown", !.error = "setCurrentDevice: not found"]
  ELSE [op EXCEPT !.pc = "storeCurrent", !.target = deviceId]

HasAddressNever(entries, address) == FALSE

\* devices.some(d => d.address === address)
HasAddress(entries, address) ==
  \E i \in DOMAIN entries : entries[i].address = address

\* devices.filter(d => d.id !== deviceId)
RECURSIVE FilterOut(_, _)
FilterOut(entries, deviceId) ==
  IF entries = <<>> THEN <<>>
  ELSE IF Head(entries).id = deviceId THEN FilterOut(Tail(entries), deviceId)
  ELSE <<Head(entries)>> \o FilterOut(Tail(entries), deviceId)

\* the operation has settled: keep what the settings hold at that moment
Settled(op, entries, currentId) ==
  [op EXCEPT !.endManual = entries, !.endCurrent = currentId]

\* the caller has no operation in progress: it has made no call yet, or
\* its last call has returned or thrown
Free == {"idle", "ret", "thrown"}

\* ids a caller can pass: of devices it has seen or made up
DeviceIds == {Uuid(n) : n \in 1..(nextUuid - 1)} \cup {LanId}

\* ------------------------------------------------------------------------
\* DeviceManager: operations
\* ------------------------------------------------------------------------
\* getDevices(): the stored entries are read, WendyCLI.create() is awaited
GetDevicesCall(c) ==
  /\ ops[c].pc \in Free
  /\ opCalls < MaxOps
  /\ opCalls' = opCalls + 1
  /\ ops' = [ops EXCEPT ![c] =
       [IdleOp EXCEPT !.pc = "discover", !.kind = "getDevices",
                      !.read = manual]]
  /\ UNCHANGED <<manual, currentDeviceId, devices,
                 deviceIdsCheckedForUpdates, checks, rechecked, nextUuid,
                 listed, lastList>>
  /\ UNCHANGED <<coreVars, resVars, cmdVars>>

\* WendyCLI.create() and the discovery probe have settled.  Nothing is read
\* or written between the two awaits, so they are one step.
GetDevicesResolved(c, outcome, found) ==
  /\ ops[c].pc = "discover"
  /\ LET manuallyAddedDevices == ManuallyAddedDevices(ops[c].read)
         ret == GetDevicesReturn(outcome, found, manuallyAddedDevices)
     IN /\ IF outcome = "noCli"
           THEN UNCHANGED <<devices, deviceIdsCheckedForUpdates, checks,
                            rechecked>>
           ELSE DevCommit(StoreDevices(DevCur,
                  IF outcome = "found" THEN found \o manuallyAddedDevices
                  ELSE manuallyAddedDevices, currentDeviceId))
        /\ ops' = [ops EXCEPT ![c] =
             Settled([@ EXCEPT !.pc = IF ret.error = "none" THEN "ret"
                                      ELSE "thrown",
                               !.outcome = outcome, !.error = ret.error,
                               !.result = ret.result],
                     manual, currentDeviceId)]
        /\ listed' = TRUE
        /\ lastList' = ret.result
  /\ UNCHANGED <<manual, currentDeviceId, nextUuid, opCalls>>
  /\ UNCHANGED <<coreVars, resVars, cmdVars>>

\* setCurrentDevice(deviceId)
SetCurrentDeviceCall(c, deviceId) ==
  /\ ops[c].pc \in Free
  /\ opCalls < MaxOps
  /\ opCalls' = opCalls + 1
  /\ LET d == SetCurrentDevice(DevCur, deviceId)
         op == [IdleOp EXCEPT !.kind = "setCurrentDevice", !.arg = deviceId]
     IN /\ DevCommit(d)
        /\ ops' = [ops EXCEPT ![c] =
             Settled(AfterSetCurrentDevice(op, d, deviceId),
                     manual, currentDeviceId)]
  /\ UNCHANGED <<manual, currentDeviceId, nextUuid, listed, lastList>>
  /\ UNCHANGED <<coreVars, resVars, cmdVars>>

\* config.update(CURRENT_DEVICE_KEY, deviceId) has resolved; the events are
\* fired and setCurrentDevice returns, and with it the addDevice or
\* deleteDevice that awaited it
CurrentDeviceStored(c) ==
  /\ ops[c].pc = "storeCurrent"
  /\ currentDeviceId' = ops[c].target
  /\ ops' = [ops EXCEPT ![c] =
       Settled([@ EXCEPT !.pc = "ret", !.writes = @ + 1],
               manual, ops[c].target)]
  /\ UNCHANGED <<manual, devices, deviceIdsCheckedForUpdates, checks,
                 rechecked, nextUuid, opCalls, listed, lastList>>
  /\ UNCHANGED <<coreVars, resVars, cmdVars>>

\* addDevice(address) up to its await of config.update
AddDeviceCall(c, address) ==
  /\ ops[c].pc \in Free
  /\ opCalls < MaxOps
  /\ opCalls' = opCalls + 1
  /\ LET op == [IdleOp EXCEPT !.kind = "addDevice", !.arg = address,
                              !.read = manual]
         newDevice == [id |-> Uuid(nextUuid), address |-> address]
     IN IF HasAddress(manual, address)
        THEN /\ ops' = [ops EXCEPT ![c] =
                  Settled([op EXCEPT !.pc = "thrown",
                                     !.error = "addDevice: already exists"],
                          manual, currentDeviceId)]
             /\ UNCHANGED nextUuid
        ELSE /\ ops' = [ops EXCEPT ![c] =
                  [op EXCEPT !.pc = "storeAdded", !.made = newDevice.id,
                             !.next = Append(manual, newDevice)]]
             /\ nextUuid' = nextUuid + 1
  /\ UNCHANGED <<manual, currentDeviceId, devices,
                 deviceIdsCheckedForUpdates, checks, rechecked, listed,
                 lastList>>
  /\ UNCHANGED <<coreVars, resVars, cmdVars>>

\* config.update(CONFIG_KEY, devices) of addDevice has resolved
AddDeviceStored(c) ==
  /\ ops[c].pc = "storeAdded"
  /\ manual' = ops[c].next
  /\ LET op == [ops[c] EXCEPT !.writes = @ + 1]
     IN IF Len(op.next) = 1
        THEN LET d == SetCurrentDevice(DevCur, op.made)
             IN /\ DevCommit(d)
                /\ ops' = [ops EXCEPT ![c] =
                     Settled(AfterSetCurrentDevice(op, d, op.made),
                             op.next, currentDeviceId)]
        ELSE /\ ops' = [ops EXCEPT ![c] =
                  Settled([op EXCEPT !.pc = "ret"], op.next,
                          currentDeviceId)]
             /\ UNCHANGED <<devices, deviceIdsCheckedForUpdates, checks,
                            rechecked>>
  /\ UNCHANGED <<currentDeviceId, nextUuid, opCalls, listed, lastList>>
  /\ UNCHANGED <<coreVars, resVars, cmdVars>>

\* deleteDevice(deviceId) up to its await of config.update
DeleteDevice(c, deviceId) ==
  /\ ops[c].pc \in Free
  /\ opCalls < MaxOps
  /\ opCalls' = opCalls + 1
  /\ LET op == [IdleOp EXCEPT !.kind = "deleteDevice", !.arg = deviceId,
                              !.read = manual]
         updatedDevices == FilterOut(manual, deviceId)
     IN ops' = [ops EXCEPT ![c] =
          IF Len(updatedDevices) = Len(manual)
          THEN Settled([op EXCEPT !.pc = "thrown",
                                  !.error = "deleteDevice: not found"],
                       manual, currentDeviceId)
          ELSE [op EXCEPT !.pc = "storeDeleted", !.next = updatedDevices]]
  /\ UNCHANGED <<manual, currentDeviceId, devices,
                 deviceIdsCheckedForUpdates, checks, rechecked, nextUuid,
                 listed, lastList>>

\* a caller inside the extension host calls deleteDevice
DeleteDeviceCall(c, deviceId) ==
  /\ DeleteDevice(c, deviceId)
  /\ UNCHANGED <<coreVars, resVars, cmdVars>>

\* config.update(CONFIG_KEY, updatedDevices) of deleteDevice has resolved
DeleteDeviceStored(c) ==
  /\ ops[c].pc = "storeDeleted"
  /\ manual' = ops[c].next
  /\ LET op == [ops[c] EXCEPT !.writes = @ + 1,
                              !.wasCurrent = (currentDeviceId = ops[c].arg)]
         successor == IF Len(op.next) > 0 THEN op.next[1].id ELSE Unset
     IN IF currentDeviceId = op.arg
        THEN LET d == SetCurrentDevice(DevCur, successor)
             IN /\ DevCommit(d)
                /\ ops' = [ops EXCEPT ![c] =
                     Settled(AfterSetCurrentDevice(op, d, successor),
                             op.next, currentDeviceId)]
        ELSE /\ ops' = [ops EXCEPT ![c] =
                  Settled([op EXCEPT !.pc = "ret"], op.next,
                          currentDeviceId)]
             /\ UNCHANGED <<devices, deviceIdsCheckedForUpdates, checks,
                            rechecked>>
  /\ UNCHANGED <<currentDeviceId, nextUuid, opCalls, listed, lastList>>
  /\ UNCHANGED <<coreVars, resVars, cmdVars>>

\* ------------------------------------------------------------------------
\* DeviceManager: the update check after its guard
\* ------------------------------------------------------------------------
checkVars ==
  <<manual, currentDeviceId, devices, deviceIdsCheckedForUpdates, ops,
    rechecked, nextUuid, opCalls, listed, lastList>>

\* WendyCLI.create() has resolved: without CLI the check throws, with it
\* the version query is started
CheckCliCreated(i, cli) ==
  /\ i \in DOMAIN checks
  /\ checks[i].pc = "create"
  /\ checks' = [checks EXCEPT ![i] =
       IF cli THEN [@ EXCEPT !.pc = "query", !.queried = TRUE]
       ELSE [@ EXCEPT !.pc = "rejected"]]
  /\ UNCHANGED checkVars
  /\ UNCHANGED <<coreVars, resVars, cmdVars>>

QueryOutcomes == {"execError", "malformed", "upToDate", "updateAvailable"}

\* `wendy agent version --check-updates` has ended
CheckQueried(i, outcome) ==
  /\ i \in DOMAIN checks
  /\ checks[i].pc = "query"
  /\ checks' = [checks EXCEPT ![i] =
       IF outcome \in {"execError", "malformed"}
       THEN [@ EXCEPT !.pc = "rejected"]
       ELSE IF outcome = "updateAvailable"
       THEN [@ EXCEPT !.pc = "prompt", !.prompted = TRUE]
       ELSE [@ EXCEPT !.pc = "done"]]
  /\ UNCHANGED checkVars
  /\ UNCHANGED <<coreVars, resVars, cmdVars>>

CheckPromptAnsweredDefaultYes(i, confirmed) ==
  /\ i \in DOMAIN checks
  /\ checks[i].pc = "prompt"
  /\ checks' = [checks EXCEPT ![i] =
       IF Find(devices, checks[i].device.id) = NoDevice
       THEN [@ EXCEPT !.pc = "rejected", !.answer = confirmed,
                      !.updateCalls = @ + 1]
       ELSE [@ EXCEPT !.pc = "update", !.answer = confirmed,
                      !.updateCalls = @ + 1]]
  /\ UNCHANGED checkVars
  /\ UNCHANGED <<coreVars, resVars, cmdVars>>

\* the user has answered "Update available": on "Update", updateAgent looks
\* the device up in this.devices and awaits WendyCLI.create()
CheckPromptAnswered(i, confirmed) ==
  /\ i \in DOMAIN checks
  /\ checks[i].pc = "prompt"
  /\ checks' = [checks EXCEPT ![i] =
       IF confirmed # "Update"
       THEN [@ EXCEPT !.pc = "done", !.answer = confirmed]
       ELSE IF Find(devices, checks[i].device.id) = NoDevice
       THEN [@ EXCEPT !.pc = "rejected", !.answer = confirmed,
                      !.updateCalls = @ + 1]
       ELSE [@ EXCEPT !.pc = "update", !.answer = confirmed,
                      !.updateCalls = @ + 1]]
  /\ UNCHANGED checkVars
  /\ UNCHANGED <<coreVars, resVars, cmdVars>>

\* WendyCLI.create() of updateAgent has resolved; the update itself runs
\* in withProgress, which is not awaited and catches its own errors
CheckAgentCliCreated(i, cli) ==
  /\ i \in DOMAIN checks
  /\ checks[i].pc = "update"
  /\ checks' = [checks EXCEPT ![i] =
       IF cli THEN [@ EXCEPT !.pc = "done"] ELSE [@ EXCEPT !.pc = "rejected"]]
  /\ UNCHANGED checkVars
  /\ UNCHANGED <<coreVars, resVars, cmdVars>>

\* ------------------------------------------------------------------------
\* Specification of the DeviceManager
\* ------------------------------------------------------------------------
\* entries a previous session left in the settings
StoredEntry(n) ==
  [id |-> Uuid(n), address |-> IF n = 1 THEN HostOnly ELSE HostOtherPort]

StoredChoices == {<<>>, <<StoredEntry(1)>>, <<StoredEntry(1), StoredEntry(2)>>}

InitDev ==
  /\ InitFields
  /\ workspaceFolders = <<>>
  /\ wendyProjects = {}
  /\ launch = [p \in Paths |-> <<>>]
  /\ executableProducts = [p \in Paths |-> <<>>]
  /\ synthCtx = IdleMdc.context
  /\ DeviceManagerFields
  /\ manual \in StoredChoices
  /\ currentDeviceId \in
       {Unset, LanId} \cup {manual[i].id : i \in DOMAIN manual}
  /\ nextUuid = Len(manual) + 1
  /\ req = IdleReq

NextDev ==
  \/ GetDevicesCall("view")
  \/ \E outcome \in DiscoveryOutcomes, found \in FoundChoices :
        GetDevicesResolved("view", outcome, found)
  \/ \E deviceId \in DeviceIds \cup {Unset} :
        SetCurrentDeviceCall("command", deviceId)
  \/ CurrentDeviceStored("command")
  \/ \E address \in Addresses : AddDeviceCall("command", address)
  \/ AddDeviceStored("command")
  \/ \E deviceId \in DeviceIds : DeleteDeviceCall("command", deviceId)
  \/ DeleteDeviceStored("command")
  \/ \E i \in DOMAIN checks, cli \in BOOLEAN : CheckCliCreated(i, cli)
  \/ \E i \in DOMAIN checks, outcome \in QueryOutcomes :
        CheckQueried(i, outcome)
  \/ \E i \in DOMAIN checks, confirmed \in {"Update", "dismissed"} :
        CheckPromptAnswered(i, confirmed)
  \/ \E i \in DOMAIN checks, cli \in BOOLEAN : CheckAgentCliCreated(i, cli)

SpecDev == InitDev /\ [][NextDev]_vars

\* ------------------------------------------------------------------------
\* Specification of concurrent addDevice calls: two callers, each of which
\* may call while the other waits for its store write
\* ------------------------------------------------------------------------
NextAdd ==
  \/ \E c \in DevCallers, address \in Addresses \cup {HostDebugPort} :
        AddDeviceCall(c, address)
  \/ \E c \in DevCallers : AddDeviceStored(c)

SpecAdd == InitDev /\ [][NextAdd]_vars

\* ------------------------------------------------------------------------
\* The command wendyDevices.deleteDevice
\* ------------------------------------------------------------------------
\* the command is invoked on a tree item: with a device the modal
\* confirmation is shown, without one the handler returns
DeleteCommandInvoked(item) ==
  /\ deleteCommand.pc \in {"idle", "done"}
  /\ deleteCommand' =
       IF item = Unset
       THEN [IdleCommand EXCEPT !.pc = "done"]
       ELSE [IdleCommand EXCEPT !.pc = "confirm", !.item = item]
  /\ UNCHANGED <<devVars, coreVars, resVars, handlers>>

\* the confirmation was answered "Remove" or dismissed: only "Remove"
\* calls deleteDevice, whose outcome is shown in a message
DeleteConfirmAnswered(confirmed) ==
  /\ deleteCommand.pc = "confirm"
  /\ IF confirmed = "Remove"
     THEN /\ DeleteDevice("command", deleteCommand.item)
          /\ deleteCommand' = [deleteCommand EXCEPT !.pc = "done",
                                  !.confirmed = confirmed,
                                  !.deleteCalls = @ + 1]
     ELSE /\ deleteCommand' = [deleteCommand EXCEPT !.pc = "done",
                                  !.confirmed = confirmed]
          /\ UNCHANGED devVars
  /\ UNCHANGED <<coreVars, resVars, handlers>>

\* ------------------------------------------------------------------------
\* WendyDebugConfigurationProvider: resolving a debug session
\* ------------------------------------------------------------------------
\* the `port` argument of selectCurrentDevice when the caller passes null
NoPort == 0

\* ensureDebugPort(address, port).  The destructuring
\* `const [host, port] = address.split(":")` declares a second `port` that
\* hides the parameter inside the block: the comparison and the template
\* string of the block use the text after the colon.
EnsureDebugPort(address, port) ==
  IF Includes(address, ":")
  THEN LET parts == Split(address, ":")
           host == parts[1]
           portText == parts[2]
       IN IF portText = StringToString(portText)
          THEN address
          ELSE host \o <<":">> \o portText
  ELSE address \o <<":">> \o NumberToString(port)

EdgeConfigNoLanguage(manifest) ==
  IF manifest \in {"missing", "unparsable"}
  THEN [kind |-> "undefined", language |-> "none"]
  ELSE IF manifest = "null"
  THEN [kind |-> "null", language |-> "none"]
  ELSE [kind |-> "object", language |-> "none"]

\* edgeConfig after the try/catch around readFile and JSON.parse
EdgeConfig(manifest) ==
  IF manifest \in {"missing", "unparsable"}
  THEN [kind |-> "undefined", language |-> "none"]
  ELSE IF manifest = "null"
  THEN [kind |-> "null", language |-> "none"]
  ELSE [kind |-> "object",
        language |-> IF manifest = "python" THEN "python" ELSE "none"]

SelectCurrentDeviceNoCheck(r, port) ==
  LET currentDevice == GetCurrentDevice(devices, currentDeviceId)
  IN IF port # NoPort
     THEN [r EXCEPT !.pc = "selected", !.address = currentDevice.address,
                    !.noDevice = (currentDevice = NoDevice),
                    !.remote = EnsureDebugPort(currentDevice.address, port),
                    !.ensureCalls = @ + 1]
     ELSE [r EXCEPT !.pc = "selected", !.address = currentDevice.address,
                    !.noDevice = (currentDevice = NoDevice),
                    !.remote = currentDevice.address]

\* selectCurrentDevice(folder, port) up to its first await or its return
SelectCurrentDevice(r, port) ==
  LET currentDevice == GetCurrentDevice(devices, currentDeviceId)
      looked == [r EXCEPT !.checked = Append(@, "device")]
  IN IF currentDevice = NoDevice
     THEN [looked EXCEPT !.pc = "devicePrompt", !.noDevice = TRUE,
                         !.prompts = @ + 1]
     ELSE IF port # NoPort
     THEN [looked EXCEPT !.pc = "selected",
                         !.address = currentDevice.address,
                         !.remote = EnsureDebugPort(currentDevice.address,
                                                    port),
                         !.ensureCalls = @ + 1]
     ELSE [looked EXCEPT !.pc = "selected",
                         !.address = currentDevice.address,
                         !.remote = currentDevice.address]

\* the rest of a branch once selectCurrentDevice has returned an address:
\* the configuration is filled in and returned
ResolvedOverwriteTask(r, type) ==
  IF r.pc # "selected" THEN r
  ELSE IF type = "debugpy"
  THEN [r EXCEPT !.pc = "ret", !.result = "descriptor", !.type = type,
                 !.request = "attach",
                 !.connect = [host |-> r.remote,
                              port |-> DEFAULT_DEBUGPY_PORT],
                 !.pathMappings = <<[localRoot |-> "folder.uri.fsPath",
                                     remoteRoot |-> "/app"]>>,
                 !.preLaunchTask = <<"wendy: Run Python App">>]
  ELSE [r EXCEPT !.pc = "ret", !.result = "descriptor", !.type = type,
                 !.request = "attach",
                 !.preLaunchTask = <<"wendy: Run ">> \o r.target]

Resolved(r, type) ==
  IF r.pc # "selected" THEN r
  ELSE IF type = "debugpy"
  THEN [r EXCEPT !.pc = "ret", !.result = "descriptor", !.type = type,
                 !.request = "attach",
                 !.connect = [host |-> r.remote,
                              port |-> DEFAULT_DEBUGPY_PORT],
                 !.pathMappings = <<[localRoot |-> "folder.uri.fsPath",
                                     remoteRoot |-> "/app"]>>,
                 !.preLaunchTask =
                    IF Falsy(r.preLaunchTask) /\ ~Falsy(r.target)
                    THEN <<"wendy: Run Python App">> ELSE @]
  ELSE [r EXCEPT !.pc = "ret", !.result = "descriptor", !.type = type,
                 !.request = "attach",
                 !.preLaunchTask =
                    IF Falsy(r.preLaunchTask) /\ ~Falsy(r.target)
                    THEN <<"wendy: Run ">> \o r.target ELSE @]

resolverVars ==
  <<manual, currentDeviceId, devices, deviceIdsCheckedForUpdates, ops,
    checks, rechecked, nextUuid, opCalls, listed, lastList, cmdVars>>

\* resolveDebugConfigurationWithSubstitutedVariables(folder, configuration)
\* up to its await of readFile
ResolveCall(folder, debugConfiguration, manifest, sdk) ==
  /\ req.pc = "idle"
  /\ req' = LET called ==
                  [IdleReq EXCEPT !.manifest = manifest, !.sdk = sdk,
                     !.target = debugConfiguration.target,
                     !.preLaunchTask = debugConfiguration.preLaunchTask,
                     !.givenTask = debugConfiguration.preLaunchTask]
            IN IF ~folder
               THEN [called EXCEPT !.pc = "ret", !.result = "null"]
               ELSE [called EXCEPT !.pc = "readFile", !.folder = TRUE]
  /\ UNCHANGED resolverVars
  /\ UNCHANGED coreVars

\* readFile has settled: the manifest is parsed, the request is routed, and
\* the native branch checks the setting swiftSdkPath
ManifestRead ==
  /\ req.pc = "readFile"
  /\ LET edgeConfig == EdgeConfig(req.manifest)
     IN req' =
          IF edgeConfig.kind # "object"
          THEN [req EXCEPT !.pc = "ret", !.result = "thrown"]
          ELSE IF edgeConfig.language = "python"
          THEN [req EXCEPT !.pc = "wait", !.branch = "script"]
          ELSE IF req.sdk \in {"unset", "blank"}
          THEN [req EXCEPT !.pc = "sdkPrompt", !.branch = "native",
                           !.checked = Append(@, "sdkPath"),
                           !.prompts = @ + 1]
          ELSE [req EXCEPT !.pc = "realpath", !.branch = "native",
                           !.checked = Append(@, "sdkPath")]
  /\ UNCHANGED resolverVars
  /\ UNCHANGED coreVars

\* script branch: the two seconds have passed
PythonWaited ==
  /\ req.pc = "wait"
  /\ req' = Resolved(SelectCurrentDevice(req, NoPort), "debugpy")
  /\ UNCHANGED resolverVars
  /\ UNCHANGED coreVars

SdkPathCheckedNoCancel ==
  /\ req.pc = "realpath"
  /\ req' = Resolved(SelectCurrentDevice(
                       [req EXCEPT !.checked = Append(@, "sdkExists")],
                       DEFAULT_DEBUG_PORT), "lldb-dap")
  /\ UNCHANGED resolverVars
  /\ UNCHANGED coreVars

\* native branch: realpath and stat of the SDK path have settled
SdkPathChecked ==
  /\ req.pc = "realpath"
  /\ req' = LET stated == [req EXCEPT !.checked = Append(@, "sdkExists")]
            IN IF req.sdk = "absent"
               THEN [stated EXCEPT !.pc = "sdkPrompt", !.prompts = @ + 1]
               ELSE Resolved(SelectCurrentDevice(stated, DEFAULT_DEBUG_PORT),
                             "lldb-dap")
  /\ UNCHANGED resolverVars
  /\ UNCHANGED coreVars

\* the user has answered one of the two SDK path messages
SdkPromptAnswered(selection) ==
  /\ req.pc = "sdkPrompt"
  /\ req' = IF selection = "Configure Swift SDK Path"
            THEN [req EXCEPT !.pc = "command", !.selection = selection]
            ELSE [req EXCEPT !.pc = "ret", !.result = "null",
                             !.selection = selection]
  /\ UNCHANGED resolverVars
  /\ UNCHANGED coreVars

\* the user has answered "No WendyOS device is selected"
DevicePromptAnswered(selection) ==
  /\ req.pc = "devicePrompt"
  /\ req' = IF selection \in {"Add Device", "Select Device"}
            THEN [req EXCEPT !.pc = "command", !.selection = selection]
            ELSE [req EXCEPT !.pc = "ret", !.result = "null",
                             !.selection = selection]
  /\ UNCHANGED resolverVars
  /\ UNCHANGED coreVars

\* the command started from a message has ended: debugging is cancelled
CommandDone ==
  /\ req.pc = "command"
  /\ req' = [req EXCEPT !.pc = "ret", !.result = "null"]
  /\ UNCHANGED resolverVars
  /\ UNCHANGED coreVars

\* the host has taken the result
ResolveReturn ==
  /\ req.pc = "ret"
  /\ req' = IdleReq
  /\ UNCHANGED resolverVars
  /\ UNCHANGED coreVars

\* ------------------------------------------------------------------------
\* Specification of the session resolver
\* ------------------------------------------------------------------------
\* the device the DeviceManager holds when a session is resolved: none, an
\* id that names no listed device, or a listed device with one of the
\* address forms
DeviceScenarios ==
  {[devices |-> <<>>, currentDeviceId |-> Unset],
   [devices |-> <<>>, currentDeviceId |-> Uuid(1)]}
  \cup
  {[devices |-> <<[id |-> Uuid(1), address |-> a,
                   connectionType |-> "Custom"]>>,
    currentDeviceId |-> Uuid(1)] :
     a \in {HostOnly, HostOtherPort, HostDebugPort}}

\* the DeviceManager after the listing that found the scenario's device
InitRes ==
  /\ InitFields
  /\ workspaceFolders = <<>>
  /\ wendyProjects = {}
  /\ launch = [p \in Paths |-> <<>>]
  /\ executableProducts = [p \in Paths |-> <<>>]
  /\ synthCtx = IdleMdc.context
  /\ \E sc \in DeviceScenarios :
       /\ devices = sc.devices
       /\ currentDeviceId = sc.currentDeviceId
       /\ manual = [i \in 1..Len(sc.devices) |->
                      [id |-> sc.devices[i].id,
                       address |-> sc.devices[i].address]]
       /\ nextUuid = Len(sc.devices) + 1
       /\ lastList = sc.devices
       /\ deviceIdsCheckedForUpdates =
            {sc.devices[i].id : i \in 1..Len(sc.devices)}
       /\ checks = [i \in 1..Len(sc.devices) |->
                      [NewCheck(sc.devices[i]) EXCEPT !.pc = "done",
                                                      !.queried = TRUE]]
  /\ ops = [c \in DevCallers |-> IdleOp]
  /\ rechecked = {}
  /\ opCalls = 0
  /\ listed = TRUE
  /\ req = IdleReq

NextRes ==
  \/ \E folder \in BOOLEAN, debugConfiguration \in DebugConfigurations,
        manifest \in Manifests, sdk \in SdkPaths :
        ResolveCall(folder, debugConfiguration, manifest, sdk)
  \/ ManifestRead
  \/ PythonWaited
  \/ SdkPathChecked
  \/ \E selection \in {"Configure Swift SDK Path", "Cancel", "dismissed"} :
        SdkPromptAnswered(selection)
  \/ \E selection \in {"Add Device", "Select Device", "Cancel",
                        "dismissed"} :
        DevicePromptAnswered(selection)
  \/ CommandDone
  \/ ResolveReturn

SpecRes == InitRes /\ [][NextRes]_vars

\* ------------------------------------------------------------------------
\* Specification of the prompts: update message, delete confirmation and
\* the messages of the resolver, with one stored device
\* ------------------------------------------------------------------------
InitPrompt ==
  /\ InitFields
  /\ workspaceFolders = <<>>
  /\ wendyProjects = {}
  /\ launch = [p \in Paths |-> <<>>]
  /\ executableProducts = [p \in Paths |-> <<>>]
  /\ synthCtx = IdleMdc.context
  /\ DeviceManagerFields
  /\ manual = <<StoredEntry(1)>>
  /\ currentDeviceId \in {Unset, Uuid(1)}
  /\ nextUuid = 2
  /\ req = IdleReq

NextPrompt ==
  \/ GetDevicesCall("view")
  \/ \E outcome \in DiscoveryOutcomes, found \in FoundChoices :
        GetDevicesResolved("view", outcome, found)
  \/ \E i \in DOMAIN checks, cli \in BOOLEAN : CheckCliCreated(i, cli)
  \/ \E i \in DOMAIN checks, outcome \in QueryOutcomes :
        CheckQueried(i, outcome)
  \/ \E i \in DOMAIN checks, confirmed \in {"Update", "dismissed"} :
        CheckPromptAnswered(i, confirmed)
  \/ \E i \in DOMAIN checks, cli \in BOOLEAN : CheckAgentCliCreated(i, cli)
  \/ \E item \in {Unset, Uuid(1)} : DeleteCommandInvoked(item)
  \/ \E confirmed \in {"Remove", "dismissed"} :
        DeleteConfirmAnswered(confirmed)
  \/ DeleteDeviceStored("command")
  \/ \E manifest \in {"python", "other"}, sdk \in {"unset", "absent", "present"} :
        ResolveCall(TRUE, [target |-> Absent, preLaunchTask |-> Absent],
                    manifest, sdk)
  \/ ManifestRead
  \/ PythonWaited
  \/ SdkPathChecked
  \/ \E selection \in {"Configure Swift SDK Path", "Cancel", "dismissed"} :
        SdkPromptAnswered(selection)
  \/ \E selection \in {"Add Device", "Select Device", "Cancel",
                        "dismissed"} :
        DevicePromptAnswered(selection)
  \/ CommandDone
  \/ ResolveReturn

SpecPrompt == InitPrompt /\ [][NextPrompt]_vars

\* ------------------------------------------------------------------------
\* Properties
\* ------------------------------------------------------------------------
\* folders for which the toolchain has emitted `add`
Added == {p \in Paths : swiftGen[p] > 0}

\* the toolchain has emitted no event at all
NoEvents == ~nonAddSeen /\ Added = {}

RECURSIVE IsSubsequence(_, _)
\* the elements of `a` occur in `b`, unmodified and in the same order
IsSubsequence(a, b) ==
  IF a = <<>> THEN TRUE
  ELSE IF b = <<>> THEN FALSE
  ELSE IF Head(a) = Head(b) THEN IsSubsequence(Tail(a), Tail(b))
  ELSE IsSubsequence(a, Tail(b))

\* C1: the folders-ready signal is fired at most once, _initialFoldersReady
\* is true exactly from that firing on, and it never returns to false.
C1_ReadyFiredOnce ==
  /\ [](fireCount <= 1 /\ (initialFoldersReady <=> fireCount = 1))
  /\ [][initialFoldersReady => initialFoldersReady']_vars

\* the timer fired the barrier and later events completed the initial set,
\* so the second trigger ran against the latch
C1_Witness ==
  /\ readyBy = "timer"
  /\ fireCount = 1
  /\ initialFolderPaths # {}
  /\ initialFolderPaths \subseteq Added
  /\ Cardinality(processedFolderPaths) = Cardinality(initialFolderPaths)

\* C2: whenever the barrier fires (while the coordinator is not disposed),
\* generateLaunchConfigurations is invoked exactly once as a result, also
\* for the immediate fire at construction without toolchain.
C2_FireInvokesGeneration ==
  (fireCount >= 1 /\ ~disposed) => genCalls = 1

\* C3: while the toolchain has emitted only `add` events, all of them for
\* initial folders, and the timer has not expired, the barrier has fired
\* exactly when the adds cover the initial set; it fired once, by the event,
\* and the timer is cancelled, so no expiry follows.
C3_AddsCoverInitial ==
  ( /\ constructed /\ hasSwiftExtension /\ ~disposed
    /\ ~nonAddSeen /\ ~timerExpired
    /\ initialFolderPaths # {}
    /\ Added \subseteq initialFolderPaths )
  => /\ initialFoldersReady <=> (Added = initialFolderPaths)
     /\ initialFoldersReady =>
          (fireCount = 1 /\ readyBy = "event" /\ ~timerPending)

C3_Witness ==
  /\ Cardinality(initialFolderPaths) = 2
  /\ Added = initialFolderPaths
  /\ ~nonAddSeen /\ ~timerExpired /\ ~disposed
  /\ readyBy = "event"

\* C4: with the toolchain present and its stream silent, the barrier has
\* fired exactly when the fallback timer has expired, it fired once, and
\* the generation pass was invoked and run exactly once.
C4_SilentStream ==
  (constructed /\ hasSwiftExtension /\ ~disposed /\ NoEvents)
  => /\ initialFoldersReady <=> timerExpired
     /\ fireCount = (IF timerExpired THEN 1 ELSE 0)
     /\ genCalls = fireCount
     /\ genRuns = fireCount

C4_Witness ==
  /\ hasSwiftExtension /\ ~disposed /\ NoEvents
  /\ timerExpired /\ initialFoldersReady
  /\ genpc = "done"

\* C5: an event-driven firing of the barrier happens only when every
\* initial folder path is in processedFolderPaths.
C5_EventFireNeedsAllInitial ==
  readyBy = "event" => initialFolderPaths \subseteq processedFolderPaths

\* C6: once the coordinator exists, the barrier eventually fires unless the
\* coordinator is disposed, whichever initial folders report events.
C6_EventuallyReady ==
  constructed ~> (initialFoldersReady \/ disposed)

\* the timer fired the barrier while an initial folder had not reported
C6_Witness ==
  /\ readyBy = "timer"
  /\ ~disposed
  /\ ~(initialFolderPaths \subseteq processedFolderPaths)

\* C7: whenever _initialFoldersReady is true, no fallback timer is armed.
C7_NoTimerWhenReady ==
  initialFoldersReady => ~timerPending

\* C8: folders holds at most one context per folder path.
C8_OneContextPerPath ==
  \A i, j \in 1..Len(folders) :
     i # j => folders[i].folder # folders[j].folder

\* C9: after a call of makeDebugConfigurations that added descriptors, a
\* later call on the same folder returns false, writes nothing, and leaves
\* the stored list as long as the first call left it.
C9_SecondCallNoOp ==
  \A i, j \in 1..Len(synthLog) :
     (i < j /\ synthLog[i].result)
     => /\ ~synthLog[j].result
        /\ synthLog[j].writes = 0
        /\ Len(synthLog[j].after) = Len(synthLog[i].after)

C9_Witness ==
  /\ Len(synthLog) >= 2
  /\ synthLog[1].result
  /\ synthLog[1].before # <<>>

\* C10: every descriptor stored before a call of makeDebugConfigurations is
\* still stored after it, unmodified and in the same relative order.
C10_ExistingPreserved ==
  \A k \in 1..Len(synthLog) :
     IsSubsequence(synthLog[k].before, synthLog[k].after)

C10_Witness ==
  \E k \in 1..Len(synthLog) :
     /\ synthLog[k].result
     /\ Len(synthLog[k].before) = 2
     /\ Len(synthLog[k].after) > 2

\* ------------------------------------------------------------------------
\* Properties of the DeviceManager
\* ------------------------------------------------------------------------
\* the update checks of device id x that issued the version query
QueriesOf(x) == {i \in DOMAIN checks : checks[i].device.id = x /\ checks[i].queried}

\* the update checks of device id x that showed the update message
PromptsOf(x) == {i \in DOMAIN checks : checks[i].device.id = x /\ checks[i].prompted}

CheckedIds == {checks[i].device.id : i \in DOMAIN checks}

\* C11: for every device id at most one version query is issued and at
\* most one update message is shown, also when checkForUpdates is invoked
\* again while a check of that id is in flight or after it has failed; an
\* id that is in deviceIdsCheckedForUpdates stays there.
C11_OneCheckPerId ==
  /\ [](\A x \in CheckedIds :
          /\ Cardinality(QueriesOf(x)) <= 1
          /\ Cardinality(PromptsOf(x)) <= 1
          /\ x \in deviceIdsCheckedForUpdates)
  /\ [][deviceIdsCheckedForUpdates \subseteq deviceIdsCheckedForUpdates']_vars

\* checkForUpdates was invoked again for an id whose check had failed
C11_Witness ==
  \E i \in DOMAIN checks :
     /\ checks[i].device.id \in rechecked
     /\ checks[i].queried
     /\ checks[i].pc = "rejected"

\* C12: addDevice(address) throws "already exists" and writes nothing when
\* a stored entry has exactly that address, and the stored list never holds
\* two entries with the same address.
C12_NoDuplicateAddress ==
  /\ \A i, j \in DOMAIN manual :
        manual[i].address = manual[j].address => i = j
  /\ \A c \in DevCallers :
        (/\ ops[c].kind = "addDevice"
         /\ \E i \in DOMAIN ops[c].read : ops[c].read[i].address = ops[c].arg)
        => /\ ops[c].pc = "thrown"
           /\ ops[c].error = "addDevice: already exists"
           /\ ops[c].writes = 0
           /\ ops[c].endManual = ops[c].read

\* a second addDevice with the address the first one stored was rejected
C12_Witness ==
  /\ ops["command"].kind = "addDevice"
  /\ ops["command"].pc = "thrown"
  /\ ops["command"].error = "addDevice: already exists"
  /\ opCalls = 2
  /\ \E i \in DOMAIN manual :
        manual[i].address = ops["command"].arg /\ manual[i].id = Uuid(1)
  /\ nextUuid = 2

\* C13: an addDevice call that found the stored list empty returns, the new
\* device is stored, and the stored current-device id is the new id.
C13_FirstDeviceBecomesCurrent ==
  \A c \in DevCallers :
     (/\ ops[c].kind = "addDevice"
      /\ ops[c].read = <<>>
      /\ ops[c].pc \in {"ret", "thrown"})
     => /\ ops[c].pc = "ret"
        /\ \E i \in DOMAIN ops[c].endManual :
              ops[c].endManual[i].id = ops[c].made
        /\ ops[c].endCurrent = ops[c].made

C15_CurrentDeviceInLastList ==
  LET device == IF currentDeviceId = Unset THEN NoDevice
                ELSE Find(devices, currentDeviceId)
  IN device # NoDevice
     => /\ listed
        /\ \E i \in DOMAIN lastList : lastList[i].id = currentDeviceId

\* C16: a getDevices call whose discovery probe failed or printed malformed
\* output returns, and returns exactly the stored manual entries it read.
C16_DiscoveryFailureFallsBack ==
  \A c \in DevCallers :
     (/\ ops[c].kind = "getDevices"
      /\ ops[c].outcome \in {"execError", "malformed"})
     => /\ ops[c].pc = "ret"
        /\ ops[c].error = "none"
        /\ Len(ops[c].result) = Len(ops[c].read)
        /\ \A i \in DOMAIN ops[c].read :
              /\ ops[c].result[i].id = ops[c].read[i].id
              /\ ops[c].result[i].address = ops[c].read[i].address
              /\ ops[c].result[i].connectionType = "Custom"

\* a listing with a failed probe returned two stored entries
C16_Witness ==
  /\ ops["view"].kind = "getDevices"
  /\ ops["view"].outcome = "malformed"
  /\ ops["view"].pc = "ret"
  /\ Len(ops["view"].result) = 2

\* C20: a rejected update check is handled by the getDevices or
\* setCurrentDevice call that started it, and neither call fails because of
\* it: getDevices never throws, setCurrentDevice throws only "not found".
C20_CheckFailureCaught ==
  /\ \A i \in DOMAIN checks : checks[i].pc = "rejected" => checks[i].caught
  /\ \A c \in DevCallers :
        /\ ops[c].kind = "getDevices" => ops[c].pc # "thrown"
        /\ (ops[c].kind = "setCurrentDevice" /\ ops[c].pc = "thrown")
           => ops[c].error = "setCurrentDevice: not found"

\* ------------------------------------------------------------------------
\* Properties of the session resolver
\* ------------------------------------------------------------------------
\* C17: the address a native session connects to is the host of the
\* device address followed by ":" and the debug port 4242, whether the
\* device address has no port or has any port.
C17_RemoteHasDebugPort ==
  (req.pc = "ret" /\ req.result = "descriptor" /\ req.branch = "native")
  => req.remote = Split(req.address, ":")[1] \o <<":">>
                    \o NumberToString(DEFAULT_DEBUG_PORT)

\* C18: while no current device is selected, a request that was routed to
\* the native or the script branch never calls ensureDebugPort and returns
\* null.
C18_NoDeviceCancels ==
  (/\ req.branch # "none"
   /\ (currentDeviceId = Unset
       \/ \A i \in DOMAIN devices : devices[i].id # currentDeviceId))
  => /\ req.ensureCalls = 0
     /\ req.pc = "ret" => req.result = "null"

\* a native request found no device, asked the user, and returned null
C18_Witness ==
  /\ req.branch = "native"
  /\ req.noDevice
  /\ req.pc = "ret"
  /\ req.result = "null"
  /\ req.ensureCalls = 0

\* C19: a request ends by returning one descriptor or null; it does not
\* throw, whatever the folder, the manifest and the SDK path are.
C19_ResolveNeverThrows ==
  req.pc = "ret" => req.result \in {"descriptor", "null"}

\* ------------------------------------------------------------------------
\* The pass, the remove event and the barrier (C21..C24)
\* ------------------------------------------------------------------------
\* C21: a failure of classification or synthesis for one folder does not
\* abort the pass: when the pass has ended after a failure, every workspace
\* folder after the failing one has been classified as well, that is, the
\* loop index has reached the last workspace folder.
C21_FailureDoesNotAbortPass ==
  genpc = "caught" => genidx = Len(workspaceFolders)

\* C22: a remove event for a folder with a known context removes that
\* context and triggers a refresh prompt, unless the context is the last
\* one known, in which case it is kept.
C22_RemoveKeepsOnlyLast ==
  [][\A p \in Paths :
       (/\ swiftLive[p] /\ ~swiftLive'[p]
        /\ \E i \in 1..Len(folders) : folders[i].folder = p)
       => IF Len(folders) = 1
          THEN folders' = folders
          ELSE /\ Len(folders') = Len(folders) - 1
               /\ prompts' = prompts + 1]_vars

\* C23: once every path of initialFolderPaths is in processedFolderPaths,
\* the barrier has fired, whatever other paths were processed as well.
C23_AllInitialProcessedFires ==
  (/\ constructed
   /\ initialFolderPaths # {}
   /\ initialFolderPaths \subseteq processedFolderPaths)
  => initialFoldersReady

\* C24: the body of generateLaunchConfigurations runs at most once, for any
\* number of calls, the call made from inside the pass included.
C24_PassBodyAtMostOnce ==
  genRuns <= 1

\* two calls were made, the second one by the barrier that the pass itself
\* fired when it marked a folder processed, and the body ran once
C24_Witness ==
  /\ genCalls = 2
  /\ genRuns = 1
  /\ fireCount = 1
  /\ readyBy = "pass"
  /\ genpc = "done"

\* ------------------------------------------------------------------------
\* The synthesizer (C25..C27)
\* ------------------------------------------------------------------------
\* C25: a call of makeDebugConfigurations that finds a descriptor of type
\* "wendy" in the stored list returns false, writes nothing and leaves the
\* stored list as it was, whatever the runnable targets of the folder.
C25_TaggedListSkipsSynthesis ==
  \A k \in 1..Len(synthLog) :
     (\E i \in 1..Len(synthLog[k].before) :
         synthLog[k].before[i].type = WENDY_LAUNCH_CONFIG_TYPE)
     => /\ ~synthLog[k].result
        /\ synthLog[k].writes = 0
        /\ synthLog[k].after = synthLog[k].before

\* the first call met a list that another descriptor heads and that holds a
\* "wendy" descriptor, in a folder with two targets that have no descriptor
C25_Witness ==
  /\ Len(synthLog) >= 1
  /\ Len(synthLog[1].before) = 2
  /\ synthLog[1].before[1].type # WENDY_LAUNCH_CONFIG_TYPE
  /\ synthLog[1].before[2].type = WENDY_LAUNCH_CONFIG_TYPE
  /\ synthCtx.swift # Undefined
  /\ Len(executableProducts[synthCtx.folder]) = 2

\* C26: a call that finds no "wendy" descriptor leaves the stored list equal
\* to the new descriptors followed by the previous list: one descriptor per
\* runnable target, in order, for a context with toolchain context, exactly
\* one for a context without; it returns true exactly when the list grew.
C26_NewDescriptorsPrepended ==
  \A k \in 1..Len(synthLog) :
     LET before == synthLog[k].before
         after == synthLog[k].after
         products == executableProducts[synthCtx.folder]
         n == Len(after) - Len(before)
     IN (\A i \in 1..Len(before) : before[i].type # WENDY_LAUNCH_CONFIG_TYPE)
        => /\ n = IF synthCtx.swift = Undefined THEN 1 ELSE Len(products)
           /\ SubSeq(after, n + 1, Len(after)) = before
           /\ \A i \in 1..n :
                 /\ after[i].type = WENDY_LAUNCH_CONFIG_TYPE
                 /\ synthCtx.swift # Undefined => after[i].target = products[i]
           /\ synthLog[k].result <=> (n > 0)

\* two targets were synthesized in front of a list that held a descriptor
C26_Witness ==
  \E k \in 1..Len(synthLog) :
     /\ synthLog[k].result
     /\ Len(synthLog[k].before) >= 1
     /\ Len(synthLog[k].after) = Len(synthLog[k].before) + 2
     /\ synthCtx.swift # Undefined

\* C27: for a managed folder whose toolchain context reports no runnable
\* target and whose stored list holds no "wendy" descriptor, the pass adds
\* no descriptor and leaves the stored list unchanged. The pass found a
\* context of the folder (existingMatchFound; contexts that exist before
\* the pass reaches a folder come from folder events and carry the
\* toolchain context), and its last synthesis for the folder has returned.
C27_NoTargetsNoChange ==
  LET m == mdc["pass"]
  IN (/\ genpc = "mdcNew"
      /\ existingMatchFound
      /\ m.pc = "ret"
      /\ executableProducts[m.context.folder] = <<>>
      /\ \A i \in 1..Len(m.configurations) :
            m.configurations[i].type # WENDY_LAUNCH_CONFIG_TYPE)
     => /\ m.writes = 0
        /\ launch[m.context.folder] = m.configurations

\* C28: when the pass is over, at most one folder has received new
\* descriptors, and the reload prompt was shown exactly when one has.
\* Stated for runs without remove events, whose prompt is a different one.
C28_OneFolderThenPrompt ==
  (genpc = "done" /\ ~nonAddSeen)
  => /\ storeWrites <= 1
     /\ (prompts > 0) <=> (storeWrites > 0)

\* ------------------------------------------------------------------------
\* The session resolver: preconditions and the script branch (C29, C30)
\* ------------------------------------------------------------------------
\* the preconditions of the native branch, in the order of the claim
PreconditionOrder == <<"sdkPath", "sdkExists", "device">>

\* the position of the first precondition the request does not meet, 0 if
\* it meets them all
FirstUnmet ==
  IF req.sdk \in {"unset", "blank"} THEN 1
  ELSE IF req.sdk = "absent" THEN 2
  ELSE IF \A i \in 1..Len(devices) : devices[i].id # currentDeviceId THEN 3
  ELSE 0

\* C29: a request in the native branch evaluates the preconditions in the
\* order SDK path configured, SDK path exists, device selected; when it
\* returns, it has evaluated them up to the first unmet one and no further,
\* has shown exactly the prompt of that one and returns null, or it met
\* them all, showed no prompt and returns a descriptor.
C29_FirstUnmetPreconditionCancels ==
  req.branch = "native"
  => /\ \E n \in 0..3 : req.checked = SubSeq(PreconditionOrder, 1, n)
     /\ req.prompts <= 1
     /\ req.pc = "ret"
        => IF FirstUnmet = 0
           THEN /\ req.checked = PreconditionOrder
                /\ req.prompts = 0
                /\ req.result = "descriptor"
           ELSE /\ req.checked = SubSeq(PreconditionOrder, 1, FirstUnmet)
                /\ req.prompts = 1
                /\ req.result = "null"

\* a request whose SDK path does not exist returned while no device was
\* selected either: one prompt, the device never looked up
C29_Witness ==
  /\ req.pc = "ret"
  /\ req.branch = "native"
  /\ req.sdk = "absent"
  /\ \A i \in 1..Len(devices) : devices[i].id # currentDeviceId
  /\ req.result = "null"
  /\ req.prompts = 1

\* C30: a request for a folder whose manifest names the language python,
\* made while a current device is selected, returns an attach descriptor
\* of type debugpy that connects to the device on port 5678 and maps the
\* local folder to /app, whatever the SDK path setting; no SDK path
\* precondition is evaluated and no prompt is shown.
C30_ScriptDescriptor ==
  (/\ req.pc = "ret"
   /\ req.folder
   /\ req.manifest = "python"
   /\ \E i \in 1..Len(devices) : devices[i].id = currentDeviceId)
  => /\ req.result = "descriptor"
     /\ req.type = "debugpy"
     /\ req.request = "attach"
     /\ req.connect.port = 5678
     /\ \E i \in 1..Len(devices) :
           /\ devices[i].id = currentDeviceId
           /\ req.connect.host = devices[i].address
     /\ req.pathMappings = <<[localRoot |-> "folder.uri.fsPath",
                              remoteRoot |-> "/app"]>>
     /\ req.checked = <<"device">>
     /\ req.prompts = 0

\* a script request returned its descriptor although no SDK path is set
C30_Witness ==
  /\ req.pc = "ret"
  /\ req.manifest = "python"
  /\ req.sdk = "unset"
  /\ req.result = "descriptor"
  /\ req.connect.port = 5678

\* ------------------------------------------------------------------------
\* The pre-launch task of the emitted descriptor (C31)
\* ------------------------------------------------------------------------
\* C31 as stated: a descriptor emitted for a request with a target and
\* without pre-launch task carries the task derived from the target name,
\* in every branch; a pre-launch task the request came with is unchanged.
C31_TaskFromTargetEveryBranch ==
  (req.pc = "ret" /\ req.result = "descriptor")
  => IF Falsy(req.givenTask)
     THEN ~Falsy(req.target)
          => req.preLaunchTask = <<"wendy: Run ", req.target[1]>>
     ELSE req.preLaunchTask = req.givenTask

\* C31 as amended: in the native branch the task is derived from the
\* target name; in the script branch it is the fixed task of the Python
\* application, whatever the target; a pre-launch task the request came
\* with is unchanged, and without a target none is set.
C31_TaskFromTargetNativeOnly ==
  (req.pc = "ret" /\ req.result = "descriptor")
  => IF ~Falsy(req.givenTask) \/ Falsy(req.target)
     THEN req.preLaunchTask = req.givenTask
     ELSE IF req.branch = "script"
     THEN req.preLaunchTask = <<"wendy: Run Python App">>
     ELSE req.preLaunchTask = <<"wendy: Run ", req.target[1]>>

\* a native request with a target and an empty pre-launch task returned
\* its descriptor with the derived task
C31_Witness ==
  /\ req.pc = "ret"
  /\ req.result = "descriptor"
  /\ req.branch = "native"
  /\ req.target = <<"app">>
  /\ req.givenTask = EmptyText
  /\ req.preLaunchTask = <<"wendy: Run ", "app">>

\* ------------------------------------------------------------------------
\* Dismissed prompts (C32)
\* ------------------------------------------------------------------------
\* C32: a dismissed prompt is a cancellation: an update check whose message
\* was dismissed has not called updateAgent and is over; a delete command
\* whose confirmation was dismissed has not called deleteDevice; a request
\* whose precondition message was dismissed returns null.
C32_DismissedIsCancel ==
  /\ \A i \in DOMAIN checks :
        checks[i].answer = "dismissed"
        => checks[i].updateCalls = 0 /\ checks[i].pc = "done"
  /\ deleteCommand.confirmed = "dismissed"
     => deleteCommand.deleteCalls = 0 /\ deleteCommand.pc = "done"
  /\ req.selection = "dismissed"
     => req.pc = "ret" /\ req.result = "null"

\* all three prompts were dismissed in one run, with the device still stored
C32_Witness ==
  /\ \E i \in DOMAIN checks : checks[i].answer = "dismissed"
  /\ deleteCommand.confirmed = "dismissed"
  /\ req.selection = "dismissed"
  /\ Len(manual) = 1

\* ------------------------------------------------------------------------
\* Rejected and concurrent DeviceManager operations (C34, C37)
\* ------------------------------------------------------------------------
\* C34: an addDevice, deleteDevice or setCurrentDevice call that rejected
\* has completed no store write, and the stored manual list at its end is
\* the one it read at its start.
C34_RejectLeavesStore ==
  \A c \in DevCallers :
     ops[c].pc = "thrown"
     => /\ ops[c].writes = 0
        /\ ops[c].kind \in {"addDevice", "deleteDevice"}
           => ops[c].endManual = ops[c].read

\* C37: when two addDevice calls with different addresses have both
\* completed, the device of every call that returned is in the stored
\* manual list.
C37_ConcurrentAddsKept ==
  (/\ \A c \in DevCallers :
         ops[c].kind = "addDevice" /\ ops[c].pc \in {"ret", "thrown"}
   /\ ops["command"].arg # ops["view"].arg)
  => \A c \in DevCallers :
        ops[c].pc = "ret"
        => \E i \in 1..Len(manual) : manual[i].id = ops[c].made

\* ------------------------------------------------------------------------
\* After dispose (C38)
\* ------------------------------------------------------------------------
\* C38: once dispose() has run, the fallback timer is not scheduled any
\* more, so its callback never runs, and no step starts the body of
\* generateLaunchConfigurations, whatever folder events arrive.
C38_NothingStartsAfterDispose ==
  /\ [](disposed => ~timerPending)
  /\ [][disposed => (genRuns' = genRuns /\ timerExpired' = timerExpired)]_vars

\* an add event that arrived after dispose() completed the initial set and
\* fired the barrier, and no pass was ever started
C38_Witness ==
  /\ disposed
  /\ readyBy = "event"
  /\ fireCount = 1
  /\ Len(folders) > 0
  /\ genCalls = 0
  /\ ~timerExpired


\* C33: the handling of two lifecycle events for the same folder path is
\* never in flight at the same time: while the handling started by an
\* earlier event for a path has not completed, no second handling for that
\* path has started
HandlerInFlight(h) == handlers[h].pc \notin {"idle", "done"}

C33_OneHandlingPerFolderInFlight ==
  \A h1 \in Handlers : \A h2 \in Handlers :
    (h1 # h2 /\ HandlerInFlight(h1) /\ HandlerInFlight(h2))
      => handlers[h1].folder.path # handlers[h2].folder.path


\* C35: the generic single descriptor is written only for folders for which
\* the toolchain never reports a context: whatever the order of the expiry
\* of the fallback timer and the `add` events, once the pass and the
\* handlers have finished, a folder for which the toolchain has reported a
\* context has no generic descriptor in its stored list
IsGenericDescriptor(configuration) ==
  /\ configuration.type = WENDY_LAUNCH_CONFIG_TYPE
  /\ configuration.name = <<"Debug", "Python App", "on WendyOS">>

C35_GenericOnlyWithoutContext ==
  (/\ genpc = "done"
   /\ \A h \in Handlers : ~HandlerInFlight(h))
    => \A p \in Paths :
         swiftGen[p] > 0
           => \A i \in 1..Len(launch[p]) : ~IsGenericDescriptor(launch[p][i])


\* C36: under every interleaving of two synthesis runs on the same folder,
\* the run of the add-event handler and the run of the pass, each reading
\* the stored list, suspending, then writing, the stored list never holds
\* two "wendy" descriptors for the same target
C36_NoDuplicateTarget ==
  \A p \in Paths :
    \A i \in 1..Len(launch[p]) : \A j \in 1..Len(launch[p]) :
      (/\ i # j
       /\ launch[p][i].type = WENDY_LAUNCH_CONFIG_TYPE
       /\ launch[p][j].type = WENDY_LAUNCH_CONFIG_TYPE)
        => launch[p][i].target # launch[p][j].target

\* a handler has written the list of a folder and returned, and the write
\* of the pass for the same folder, whose read preceded it, has resolved
C36_Witness ==
  \E h \in Handlers :
    /\ handlers[h].wrote
    /\ mdc["pass"].pc = "ret"
    /\ mdc["pass"].result
    /\ mdc["pass"].context.folder = handlers[h].folder.path
    /\ HasWendyConfigurations(launch[handlers[h].folder.path])

====
